---- MODULE Spec2Model ----
(***************************************************************************)
(* Model of the Thinkific course scraper: the click-through interaction    *)
(* loop clickThroughAndScrapeCourse (injected into the page), the selector *)
(* helpers it uses, and the popup controller that starts and cancels it.   *)
(*                                                                         *)
(* Strings are sequences of one-character strings, so that trimming,       *)
(* whitespace collapsing, case folding and substring search are computed   *)
(* as the JavaScript computes them.  The markers Null, Absent and NoEl,    *)
(* and the fixed error messages, are one-element sequences holding a       *)
(* longer token, so they differ from every string of characters, including *)
(* the empty one.                                                          *)
(***************************************************************************)
EXTENDS Naturals, Sequences, FiniteSets, TLC

\* ------------------------------------------------------------------ values

\* JavaScript null
Null == <<"null">>
\* a property that was never assigned (lesson.error before any failure)
Absent == <<"absent">>
\* findElement / querySelector returned null
NoEl == <<"noelement">>

\* ------------------------------------------------------------------ strings

\* The strings of this module hold ASCII characters.  Of the characters /\s/
\* and trim() take for white space these are space, tab, line feed, vertical
\* tab (written as the character itself, there is no escape for it), form feed
\* and carriage return; U+00A0, U+FEFF and the Unicode space separators are
\* not ASCII.
WhiteSpace == {" ", "\t", "\n", "", "\f", "\r"}

UpperChars == <<"A","B","C","D","E","F","G","H","I","J","K","L","M",
                "N","O","P","Q","R","S","T","U","V","W","X","Y","Z">>
LowerChars == <<"a","b","c","d","e","f","g","h","i","j","k","l","m",
                "n","o","p","q","r","s","t","u","v","w","x","y","z">>

\* toLowerCase of one character of these strings: only A to Z have a lower
\* case among them
LowerChar(c) ==
    IF \E i \in 1..Len(UpperChars) : UpperChars[i] = c
    THEN LowerChars[CHOOSE i \in 1..Len(UpperChars) : UpperChars[i] = c]
    ELSE c

\* String.prototype.toLowerCase
RECURSIVE ToLowerCase(_)
ToLowerCase(s) ==
    IF s = <<>> THEN <<>> ELSE <<LowerChar(Head(s))>> \o ToLowerCase(Tail(s))

RECURSIVE TrimStart(_)
TrimStart(s) ==
    IF s # <<>> /\ Head(s) \in WhiteSpace THEN TrimStart(Tail(s)) ELSE s

RECURSIVE TrimEnd(_)
TrimEnd(s) ==
    IF s # <<>> /\ s[Len(s)] \in WhiteSpace
    THEN TrimEnd(SubSeq(s, 1, Len(s) - 1))
    ELSE s

\* String.prototype.trim
Trim(s) == TrimEnd(TrimStart(s))

\* s.replace(/\s+/g, ' '): every maximal run of whitespace becomes one space
RECURSIVE CollapseWs(_)
CollapseWs(s) ==
    IF s = <<>> THEN <<>>
    ELSE IF Head(s) \in WhiteSpace
         THEN <<" ">> \o CollapseWs(TrimStart(s))
         ELSE <<Head(s)>> \o CollapseWs(Tail(s))

\* String.prototype.includes
Includes(s, sub) ==
    \E i \in 0..(Len(s) - Len(sub)) : SubSeq(s, i + 1, i + Len(sub)) = sub

Digits == <<"0","1","2","3","4","5","6","7","8","9">>

\* template-literal rendering of a natural number
RECURSIVE NumToString(_)
NumToString(n) ==
    IF n < 10 THEN <<Digits[n + 1]>>
    ELSE NumToString(n \div 10) \o <<Digits[(n % 10) + 1]>>

\* the text of a possibly missing element: el?.textContent.trim()
TrimmedText(el) == IF el = NoEl THEN <<>> ELSE Trim(el)

\* ------------------------------------------------------------------ literals

Str_video == <<"v","i","d","e","o">>
Str_play == <<"p","l","a","y">>
Str_text == <<"t","e","x","t">>
Str_document == <<"d","o","c","u","m","e","n","t">>
Str_file_text == <<"f","i","l","e","-","t","e","x","t">>
Str_quiz == <<"q","u","i","z">>
Str_question == <<"q","u","e","s","t","i","o","n">>
Str_test == <<"t","e","s","t">>
Str_download == <<"d","o","w","n","l","o","a","d">>
Str_arrow_down == <<"a","r","r","o","w","-","d","o","w","n">>
Str_unknown == <<"u","n","k","n","o","w","n">>
Str_type_video == <<"t","y","p","e","=","\"","v","i","d","e","o","\"">>
Str_data_type_video == <<"d","a","t","a","-","t","y","p","e","=","\"","v","i","d","e","o","\"">>
Str_type_text == <<"t","y","p","e","=","\"","t","e","x","t","\"">>
Str_data_type_text == <<"d","a","t","a","-","t","y","p","e","=","\"","t","e","x","t","\"">>
Str_Chapter == <<"C","h","a","p","t","e","r"," ">>
Str_Lesson == <<"L","e","s","s","o","n"," ">>

\* the per-lesson error messages of clickThroughAndScrapeCourse
ErrNotFound == <<"Could not find lesson card in DOM">>
ErrTimeout == <<"Lesson did not load in editor panel (timeout)">>
ErrExtract == <<"Could not extract text from editor">>
ErrUnknown == <<"Unknown error">>
\* the fatal error of a page without chapter containers
ErrNoChapters == <<"No chapters found. Make sure you are on the curriculum page.">>
\* message of the TypeError raised by calling toLowerCase on an SVGAnimatedString
ErrTypeError == <<"iconElement.className.toLowerCase is not a function">>
\* message of an exception raised by a DOM operation of the page
ErrDom == <<"DOM failure">>

\* ------------------------------------------------------------------ selectors.js

\* A context (the document or an element) is given by what its querySelectorAll
\* answers for each selector: the matching elements in document order, or an
\* exception for a selector it cannot parse.  querySelector answers the first
\* of these elements, or null, and raises the same exceptions.
QueryResult(throws, matches) == [throws |-> throws, matches |-> matches]

\* if (!Array.isArray(selectorArray)) selectorArray = [selectorArray]
AsArray(selectorArray) ==
    IF selectorArray.isArray THEN selectorArray.value ELSE <<selectorArray.selector>>

\* A variant of the resolution loop without its try/catch: resolution ends at
\* the first selector whose query raises.
RECURSIVE FirstMatchAbortingOnThrow(_, _)
FirstMatchAbortingOnThrow(selectors, context) ==
    IF selectors = <<>> THEN NoEl
    ELSE IF context[Head(selectors)].throws THEN NoEl
    ELSE IF Len(context[Head(selectors)].matches) > 0
         THEN Head(context[Head(selectors)].matches)
         ELSE FirstMatchAbortingOnThrow(Tail(selectors), context)

\* the for loop of findElement over the selectors that are left
RECURSIVE FirstMatch(_, _)
FirstMatch(selectors, context) ==
    IF selectors = <<>> THEN NoEl
    ELSE IF ~context[Head(selectors)].throws
            /\ Len(context[Head(selectors)].matches) > 0
         THEN Head(context[Head(selectors)].matches)
         ELSE FirstMatch(Tail(selectors), context)

findElement(selectorArray, context) == FirstMatch(AsArray(selectorArray), context)

\* A variant of the collecting loop that gathers the matches of every selector.
RECURSIVE AllMatchesUnion(_, _)
AllMatchesUnion(selectors, context) ==
    IF selectors = <<>> THEN <<>>
    ELSE (IF context[Head(selectors)].throws THEN <<>>
          ELSE context[Head(selectors)].matches)
         \o AllMatchesUnion(Tail(selectors), context)

\* the for loop of findElements over the selectors that are left
RECURSIVE AllMatches(_, _)
AllMatches(selectors, context) ==
    IF selectors = <<>> THEN <<>>
    ELSE IF ~context[Head(selectors)].throws
            /\ Len(context[Head(selectors)].matches) > 0
         THEN context[Head(selectors)].matches
         ELSE AllMatches(Tail(selectors), context)

findElements(selectorArray, context) == AllMatches(AsArray(selectorArray), context)

\* What findElement(SELECTORS.lessonIcon, card) resolves to is part of the page:
\* card.icon says whether an element was found, and gives its serialized markup,
\* its className string, and whether it is an SVG element (whose className is an
\* SVGAnimatedString object, not a string, so that className.toLowerCase() raises
\* a TypeError).

ThrowsTypeError == <<"TypeError">>

detectLessonType(card) ==
    IF ~card.icon.found THEN Str_unknown
    ELSE IF card.icon.svg THEN ThrowsTypeError
    ELSE LET iconHTML == ToLowerCase(card.icon.outerHTML)
             iconClasses == ToLowerCase(card.icon.className)
             lessonHTML == ToLowerCase(card.markup \o card.icon.outerHTML
                                       \o (IF card.title = NoEl THEN <<>> ELSE card.title))
         IN  IF \/ Includes(iconHTML, Str_video) \/ Includes(iconHTML, Str_play)
                \/ Includes(iconClasses, Str_video) \/ Includes(iconClasses, Str_play)
             THEN Str_video
             ELSE IF \/ Includes(iconHTML, Str_text) \/ Includes(iconHTML, Str_document)
                     \/ Includes(iconHTML, Str_file_text)
                     \/ Includes(iconClasses, Str_text) \/ Includes(iconClasses, Str_document)
             THEN Str_text
             ELSE IF \/ Includes(iconHTML, Str_quiz) \/ Includes(iconHTML, Str_question)
                     \/ Includes(iconHTML, Str_test)
                     \/ Includes(iconClasses, Str_quiz) \/ Includes(iconClasses, Str_question)
             THEN Str_quiz
             ELSE IF \/ Includes(iconHTML, Str_download) \/ Includes(iconHTML, Str_arrow_down)
                     \/ Includes(iconClasses, Str_download)
             THEN Str_download
             ELSE IF \/ Includes(lessonHTML, Str_type_video)
                     \/ Includes(lessonHTML, Str_data_type_video)
             THEN Str_video
             ELSE IF \/ Includes(lessonHTML, Str_type_text)
                     \/ Includes(lessonHTML, Str_data_type_text)
             THEN Str_text
             ELSE Str_unknown

\* ------------------------------------------------------------------ pages

\* An icon element as findElement(SELECTORS.lessonIcon, card) returns it.
Icon(html, cls) == [found |-> TRUE, svg |-> FALSE, outerHTML |-> html, className |-> cls]
SvgIcon == [found |-> TRUE, svg |-> TRUE, outerHTML |-> <<"<","s","v","g",">">>, className |-> <<>>]
NoIcon == [found |-> FALSE, svg |-> FALSE, outerHTML |-> <<>>, className |-> <<>>]

IconText == Icon(<<"<","i"," ","c","l","a","s","s","=","\"","f","i","l","e","-","t","e","x","t","\"",">">>, <<"f","i","l","e","-","t","e","x","t">>)
IconVideo == Icon(<<"<","i"," ","c","l","a","s","s","=","\"","P","l","a","y","\"",">">>, <<"P","l","a","y">>)
IconQuiz == Icon(<<"<","i"," ","c","l","a","s","s","=","\"","q","u","i","z","\"",">">>, <<"q","u","i","z">>)
IconTextDownload == Icon(<<"<","i"," ","c","l","a","s","s","=","\"","t","e","x","t"," ","d","o","w","n","l","o","a","d","\"",">">>, <<"t","e","x","t"," ","d","o","w","n","l","o","a","d">>)
IconPlain == Icon(<<"<","i"," ","c","l","a","s","s","=","\"","i","c","o","n","\"",">">>, <<"i","c","o","n">>)

\* A lesson card of the curriculum page: the text of its title element (NoEl when
\* it has none), its icon, its own opening tag, and what the page's editor panel
\* shows once the card's lesson is loaded: the panel title and the editor's
\* innerHTML and innerText.
Card(title, icon, markup, edTitle, html, plain) ==
    [title |-> title, icon |-> icon, markup |-> markup,
     edTitle |-> edTitle, html |-> html, plain |-> plain]

CardIntro == Card(<<" ","I","n","t","r","o"," ">>, IconText, <<"<","d","i","v",">">>, <<"I","n","t","r","o">>, <<"<","p",">","x","<","/","p",">">>, <<"x">>)
CardSetup == Card(<<"S","e","t","u","p">>, IconVideo, <<"<","d","i","v",">">>, <<"S","e","t","u","p">>, <<"<","i","m","g",">">>, <<>>)
CardIntroLower == Card(<<"i","n","t","r","o">>, IconQuiz, <<"<","d","i","v",">">>, <<"i","n","t","r","o">>, <<"<","p",">","y","<","/","p",">">>, <<"y">>)
CardEmpty == Card(<<"E","m","p","t","y">>, IconTextDownload, <<"<","d","i","v",">">>, <<"E","m","p","t","y">>, <<>>, <<>>)
CardUntitled == Card(NoEl, NoIcon, <<"<","d","i","v",">">>, <<"L","e","s","s","o","n"," ","1">>, <<"<","p",">","z","<","/","p",">">>, <<"z">>)
CardFaq == Card(<<"A"," "," ","b">>, IconPlain, <<"<","d","i","v"," ","d","a","t","a","-","t","y","p","e","=","\"","t","e","x","t","\"",">">>, <<"A"," ","b">>, <<"<","p",">","w","<","/","p",">">>, <<"w">>)
CardSvg == Card(<<"L","o","g","o">>, SvgIcon, <<"<","d","i","v",">">>, <<"L","o","g","o">>, <<"<","p",">","v","<","/","p",">">>, <<"v">>)

\* A chapter container: the text of its title element (NoEl when it has none)
\* and its lesson cards in DOM order.
Chapter(title, cards) == [title |-> title, cards |-> cards]

\* The curriculum pages the scraper is run on: the chapter containers that
\* findElements(SELECTORS.chapterContainer) resolves, in DOM order.
PageNoChapters == <<>>
PageOne == <<Chapter(<<"B","a","s","i","c","s">>, <<CardIntro>>)>>
PageTwoOne == <<Chapter(NoEl, <<CardIntro, CardSetup>>), Chapter(<<" ","P","a","r","t"," ">>, <<CardEmpty>>)>>
PageDuplicate == <<Chapter(<<"B","a","s","i","c","s">>, <<CardIntro>>), Chapter(<<"M","o","r","e">>, <<CardIntroLower, CardFaq>>)>>
PageGap == <<Chapter(<<"B","a","s","i","c","s">>, <<>>), Chapter(<<" ">>, <<CardUntitled, CardSetup>>)>>
PageSvg == <<Chapter(<<"B","a","s","i","c","s">>, <<CardIntro, CardSvg>>)>>

\* two chapters, of three and of two lessons
PageFive == <<Chapter(<<"B","a","s","i","c","s">>, <<CardIntro, CardSetup, CardUntitled>>),
              Chapter(<<"M","o","r","e">>, <<CardUntitled, CardEmpty>>)>>

PageNames == {"none", "one", "two_one", "duplicate", "gap", "svg", "five"}

\* the document of the page with the given name
Document(name) ==
    CASE name = "none" -> PageNoChapters
      [] name = "one" -> PageOne
      [] name = "two_one" -> PageTwoOne
      [] name = "duplicate" -> PageDuplicate
      [] name = "gap" -> PageGap
      [] name = "svg" -> PageSvg
      [] name = "five" -> PageFive

\* the title element the page shows in the editor panel while no lesson is loaded
StaleTitle == <<"C","o","u","r","s","e">>

\* ------------------------------------------------------------------ text helpers of the loop

\* A variant of normalizeText without its toLowerCase().
normalizeTextKeepingCase(text) ==
    IF text = <<>> THEN <<>> ELSE CollapseWs(Trim(text))

\* normalizeText of clickThroughAndScrapeCourse: used to match card titles
normalizeText(text) ==
    IF text = <<>> THEN <<>> ELSE ToLowerCase(CollapseWs(Trim(text)))

\* normalize of waitForLessonLoaded: used to match the editor panel title
normalize(s) == CollapseWs(Trim(s))

\* x || null for a string x
OrNull(x) == IF x = <<>> THEN Null ELSE x

\* ------------------------------------------------------------------ course plan

\* chapterTitleEl?.textContent.trim() || `Chapter ${chapterIndex + 1}`
ChapterTitleOf(chapter, chapterIndex) ==
    IF TrimmedText(chapter.title) = <<>>
    THEN Str_Chapter \o NumToString(chapterIndex + 1)
    ELSE TrimmedText(chapter.title)

\* lessonTitleEl?.textContent.trim() || `Lesson ${lessonIndex + 1}`
LessonTitleOf(card, lessonIndex) ==
    IF TrimmedText(card.title) = <<>>
    THEN Str_Lesson \o NumToString(lessonIndex + 1)
    ELSE TrimmedText(card.title)

\* A variant of the push that numbers lessons from 1: index-by-position
\* properties of the plan must tell it from the push of the source.
NewLessonOneBased(card, chapterIndex, lessonIndex) ==
    [chapterIndex |-> chapterIndex,
     lessonIndex |-> lessonIndex + 1,
     title |-> LessonTitleOf(card, lessonIndex),
     type |-> detectLessonType(card),
     content |-> Null,
     textContent |-> Null,
     plainTextContent |-> Null,
     error |-> Absent]

\* the lesson object pushed for the card at position lessonIndex of chapter chapterIndex
NewLesson(card, chapterIndex, lessonIndex) ==
    [chapterIndex |-> chapterIndex,
     lessonIndex |-> lessonIndex,
     title |-> LessonTitleOf(card, lessonIndex),
     type |-> detectLessonType(card),
     content |-> Null,
     textContent |-> Null,
     plainTextContent |-> Null,
     error |-> Absent]

\* the chapter object pushed for the chapter container at position chapterIndex
NewChapter(chapter, chapterIndex) ==
    [chapterTitle |-> ChapterTitleOf(chapter, chapterIndex),
     chapterIndex |-> chapterIndex,
     lessons |-> [l \in 1..Len(chapter.cards) |->
                    NewLesson(chapter.cards[l], chapterIndex, l - 1)]]

\* the plan-building loop over the resolved chapter containers
BuildChapters(pg) == [c \in 1..Len(pg) |-> NewChapter(pg[c], c - 1)]

\* detectLessonType raises while the plan is built
PlanThrows(pg) ==
    \E c \in 1..Len(pg) : \E l \in 1..Len(pg[c].cards) :
        detectLessonType(pg[c].cards[l]) = ThrowsTypeError

\* totalLessons as the plan-building loop counts it: one per pushed lesson
RECURSIVE CountLessons(_)
CountLessons(chs) ==
    IF chs = <<>> THEN 0 ELSE Len(Head(chs).lessons) + CountLessons(Tail(chs))

\* findElements(SELECTORS.lessonCard) on the whole document: every card, in DOM order
RECURSIVE AllCards(_)
AllCards(pg) ==
    IF pg = <<>> THEN <<>> ELSE Head(pg).cards \o AllCards(Tail(pg))

\* ------------------------------------------------------------------ loop helpers

\* The loops `for (const chapter of chapters) for (const lesson of chapter.lessons)`:
\* the position (c, l) of the first lesson at or after lesson l of chapter c, with
\* c = Len(chs) + 1 once both loops are exhausted.
RECURSIVE SeekLesson(_, _, _)
SeekLesson(chs, c, l) ==
    IF c > Len(chs) THEN <<Len(chs) + 1, 1>>
    ELSE IF l <= Len(chs[c].lessons) THEN <<c, l>>
    ELSE SeekLesson(chs, c + 1, 1)

\* A variant of the loop step that stays on the same lesson, as a retry would.
NextLessonSame(chs, c, l) == SeekLesson(chs, c, l)

\* the position of the iteration that follows the one of lesson (c, l)
NextLesson(chs, c, l) == SeekLesson(chs, c, l + 1)

\* the check `if (window.__TCS_CANCELLED)` at the top of an iteration
CancellationObserved(flag) == flag

\* window.__TCS_CANCELLED = window.__TCS_CANCELLED || false
InitialFlag(flag) == flag \/ FALSE

\* A variant of the locate loop without its break: the last matching card wins.
LocateCardLast(cards, title) ==
    IF \E i \in 1..Len(cards) :
          cards[i].title # NoEl /\ normalizeText(cards[i].title) = normalizeText(title)
    THEN CHOOSE i \in 1..Len(cards) :
          /\ cards[i].title # NoEl
          /\ normalizeText(cards[i].title) = normalizeText(title)
          /\ \A j \in (i + 1)..Len(cards) :
                ~(cards[j].title # NoEl
                  /\ normalizeText(cards[j].title) = normalizeText(title))
    ELSE 0

\* The locate loop: the index of the first card, in the order of cards, that has
\* a title element whose normalized text equals the normalized lesson title;
\* 0 when there is none.
LocateCard(cards, title) ==
    IF \E i \in 1..Len(cards) :
          cards[i].title # NoEl /\ normalizeText(cards[i].title) = normalizeText(title)
    THEN CHOOSE i \in 1..Len(cards) :
          /\ cards[i].title # NoEl
          /\ normalizeText(cards[i].title) = normalizeText(title)
          /\ \A j \in 1..(i - 1) :
                ~(cards[j].title # NoEl
                  /\ normalizeText(cards[j].title) = normalizeText(title))
    ELSE 0

\* the lessons of a chapter tree, in plan order
RECURSIVE PlanLessons(_)
PlanLessons(chs) ==
    IF chs = <<>> THEN <<>> ELSE Head(chs).lessons \o PlanLessons(Tail(chs))

\* A variant of the failure assignments that forgets lesson.error: the failure
\* properties must tell it from the assignments of the source.
FailedLessonWithoutError(lesson, message) ==
    [lesson EXCEPT !.content = Null, !.textContent = Null,
                   !.plainTextContent = Null]

\* the four assignments of a failed lesson
FailedLesson(lesson, message) ==
    [lesson EXCEPT !.content = Null, !.textContent = Null,
                   !.plainTextContent = Null, !.error = message]

\* lessonError.message || 'Unknown error'
CaughtMessage(message) == IF message = <<>> THEN ErrUnknown ELSE message

\* The editor element that findElement(SELECTORS.lessonTextEditor) resolves when
\* the text is extracted: none, an inline element, or a frame whose document is
\* accessible, is null, or raises on access.
EditorKinds == {"missing", "div", "iframe", "iframe_nodoc", "iframe_blocked"}

NoText == [found |-> FALSE, html |-> <<>>, plainText |-> <<>>]

\* extractLessonText: what it returns for an editor of the given kind holding
\* the given markup and text; found = FALSE stands for the null result
extractLessonText(kind, html, plain) ==
    IF kind \in {"div", "iframe"}
    THEN [found |-> TRUE, html |-> html, plainText |-> plain]
    ELSE NoText

\* A variant of the assignments that records the extraction error even when
\* the editor gave content.
ExtractedLessonKeepingError(lesson, textResult) ==
    [lesson EXCEPT !.content = OrNull(textResult.html),
                   !.textContent = OrNull(textResult.plainText),
                   !.plainTextContent = OrNull(textResult.plainText),
                   !.error = ErrExtract]

\* the assignments that follow extractLessonText()
ExtractedLesson(lesson, textResult) ==
    IF textResult.found
    THEN [lesson EXCEPT !.content = OrNull(textResult.html),
                        !.textContent = OrNull(textResult.plainText),
                        !.plainTextContent = OrNull(textResult.plainText)]
    ELSE FailedLesson(lesson, ErrExtract)

\* messages sent with chrome.runtime.sendMessage
\* the init message has no completed key
InitEvent(total) ==
    [type |-> "tcs-init", totalLessons |-> total, lessonTitle |-> Absent]
ProgressEvent(done, total, title) ==
    [type |-> "tcs-progress", completed |-> done, totalLessons |-> total, lessonTitle |-> title]
\* A variant of the done message that reports every lesson as completed.
DoneEventFull(done, total) ==
    [type |-> "tcs-done", completed |-> total, totalLessons |-> total, lessonTitle |-> Absent]
DoneEvent(done, total) ==
    [type |-> "tcs-done", completed |-> done, totalLessons |-> total, lessonTitle |-> Absent]
\* A variant of the cancelled message that counts the lesson not yet started.
CancelledEventCountingNext(done, total) ==
    [type |-> "tcs-cancelled", completed |-> done + 1, totalLessons |-> total,
     lessonTitle |-> Absent]
CancelledEvent(done, total) ==
    [type |-> "tcs-cancelled", completed |-> done, totalLessons |-> total, lessonTitle |-> Absent]

\* A variant of the final send without its `if (!cancelled)` guard.
TerminalEventsAlwaysDone(isCancelled, done, total) == <<DoneEvent(done, total)>>

\* the send guarded by `if (!cancelled)` after the loops
TerminalEvents(isCancelled, done, total) ==
    IF isCancelled THEN <<>> ELSE <<DoneEvent(done, total)>>

\* A variant of the returned object that reports every run as completed.
FinalDataNeverCancelled(isCancelled, chs, total) ==
    [cancelled |-> FALSE,
     totalChapters |-> Len(chs),
     totalLessons |-> total,
     chapters |-> chs]

\* A variant of the returned object whose totalLessons counts the lessons that
\* were given a result instead of the lessons of the plan.
FinalDataCountingProcessed(isCancelled, chs, total) ==
    [cancelled |-> isCancelled,
     totalChapters |-> Len(chs),
     totalLessons |-> Cardinality({i \in 1..Len(PlanLessons(chs)) :
                          \/ PlanLessons(chs)[i].error # Absent
                          \/ PlanLessons(chs)[i].content # Null}),
     chapters |-> chs]

\* the object returned by clickThroughAndScrapeCourse
FinalData(isCancelled, chs, total) ==
    [cancelled |-> isCancelled,
     totalChapters |-> Len(chs),
     totalLessons |-> total,
     chapters |-> chs]

\* no value returned (yet)
NoData == FinalData(FALSE, <<>>, 0)

\* waitForLessonLoaded(lesson.title, 12000) and its sleep(500) between polls
LoadTimeoutMs == 12000
PollIntervalMs == 500

\* The polling loops read the clock (Date.now() - start) after each sleep.  A
\* timer fires no earlier than its delay and may fire later: the time a sleep
\* takes is its delay, or that and up to MaxLateIntervals delays more.
MaxLateIntervals == 2
SleepTimes(delay) == {delay * k : k \in 1..(1 + MaxLateIntervals)}

\* ------------------------------------------------------------------ state

VARIABLES
    page,             \* the name of the curriculum page the popup is opened on
    tcsCancelled,     \* window.__TCS_CANCELLED of the page
    spc,              \* where clickThroughAndScrapeCourse stands
    chapters,         \* const chapters: the plan and result tree
    ci, li,           \* the iteration of the two loops: chapter and lesson (from 1)
    totalLessons,     \* let totalLessons
    completed,        \* let completed
    processedLessons, \* let processedLessons
    cancelled,        \* let cancelled
    target,           \* targetLessonCard: its index among all cards, 0 for null
    waited,           \* Date.now() - start inside waitForLessonLoaded (0 outside)
    events,           \* the messages sent by the current run, in order
    clicks,           \* the clicks simulated by the current run, in order
    turns,            \* the lesson turns ended in the current run: how, and the lesson then
    flagSetAt,        \* where the current run stood when the flag became true
    outcome,          \* "none", "returned" or "failed": how the run ended
    finalData,        \* the value returned
    fatalMessage,     \* error.message of the fatal error caught at the end
    isScraping, currentTabId, wasCancelled,   \* module-level state of the popup
    startDisabled, cancelDisabled,            \* the disabled flags of the buttons
    rpc,              \* where runScrape stands
    inbox,            \* messages on their way to the popup's onMessage listener
    cancelInFlight,   \* the Cancel handler's executeScript has not run in the page yet
    cancelRequested,  \* Cancel was requested since the last Start click
    downloads,        \* calls of chrome.downloads.download since the last Start click
    args,             \* the helper call under study: the function and its arguments
    ret,              \* what that call returned, once it has
    proc,             \* the locals of that call while it awaits (utils.js)
    runs,             \* the calls of runScrape made so far: where each stands
    status,           \* the text of the popup's status line
    cancelClicks,     \* the clicks on Cancel handled so far
    cancelScripts,    \* the scripts of the Cancel handler that have not settled
    channel           \* chrome.runtime as the page sees it: "open" while the popup
                      \* listens, "closed" once no receiver is left, "invalid"
                      \* once sendMessage throws

pageVars == <<tcsCancelled, spc, chapters, ci, li, totalLessons, completed,
              processedLessons, cancelled, target, waited, events, clicks,
              turns, flagSetAt, outcome, finalData, fatalMessage>>
popupVars == <<isScraping, currentTabId, wasCancelled, startDisabled,
               cancelDisabled, rpc, downloads>>
helperVars == <<args, ret, proc>>
\* what only the study of overlapping runs of the popup follows
runVars == <<runs, status, cancelClicks, cancelScripts, channel>>
vars == <<page, pageVars, popupVars, inbox, cancelInFlight, cancelRequested,
          helperVars, runVars>>

\* no helper call is under study
NoCall == [fn |-> "none"]
\* the call has not returned
NotReturned == [done |-> FALSE, value |-> <<>>]
\* no call with locals of its own is under way
NoProc == [pc |-> "none"]
\* the call returned value
ReturnedValue(value) == [done |-> TRUE, value |-> value]

\* The scripts of the Cancel handler on their way: called, and not yet run in
\* the page; run in the page, with the promise not yet resolved in the popup.
NoCancelScripts == [called |-> 0, ran |-> 0]

\* popup just opened, nothing injected into the page yet
IdleButCancelButton ==
    /\ tcsCancelled = FALSE
    /\ spc = "none"
    /\ chapters = <<>>
    /\ ci = 1 /\ li = 1
    /\ totalLessons = 0 /\ completed = 0 /\ processedLessons = 0
    /\ cancelled = FALSE
    /\ target = 0 /\ waited = 0
    /\ events = <<>> /\ clicks = <<>> /\ turns = <<>>
    /\ flagSetAt = [turn |-> 0, at |-> "never"]
    /\ outcome = "none" /\ finalData = NoData /\ fatalMessage = <<>>
    /\ isScraping = FALSE /\ currentTabId = 0 /\ wasCancelled = FALSE
    /\ startDisabled = FALSE
    /\ rpc = "idle"
    /\ inbox = <<>>
    /\ cancelInFlight = FALSE /\ cancelRequested = FALSE
    /\ downloads = 0
    /\ runs = <<>> /\ status = "" /\ cancelClicks = 0
    /\ cancelScripts = NoCancelScripts
    /\ channel = "open"

\* the Cancel button starts disabled
Idle ==
    /\ IdleButCancelButton
    /\ cancelDisabled = TRUE

Init ==
    /\ page \in PageNames
    /\ Idle
    /\ args = NoCall /\ ret = NotReturned /\ proc = NoProc

\* the lesson of the current iteration
CurrentLesson == chapters[ci].lessons[li]
\* both loops are exhausted
LoopExhausted == ci > Len(chapters)

\* A variant of the store that also rewrites the lesson's title.
WithLessonRetitled(lesson) ==
    [chapters EXCEPT ![ci].lessons[li] = [lesson EXCEPT !.title = Str_unknown]]

\* chapters with the current lesson replaced
WithLesson(lesson) == [chapters EXCEPT ![ci].lessons[li] = lesson]

\* sendMessage: the messages the function tries to send are recorded and, for
\* the types whose handler changes popup state, queued for the popup's listener.
\* Nothing is queued when no receiver is left (the promise sendMessage returns
\* is rejected, and nobody looks at it) or when sendMessage throws.
RECURSIVE QueuedTypes(_)
QueuedTypes(sent) ==
    IF sent = <<>> THEN <<>>
    ELSE IF Head(sent).type = "tcs-progress" THEN QueuedTypes(Tail(sent))
    ELSE <<Head(sent).type>> \o QueuedTypes(Tail(sent))

Delivered(ch, box, types) == IF ch = "open" THEN box \o types ELSE box

Send(sent) ==
    /\ events' = events \o sent
    /\ inbox' = Delivered(channel, inbox, QueuedTypes(sent))

\* A variant of the sends without their try/catch: an exception of sendMessage
\* reaches the outer catch of the function.
AfterSendUncaught(ch, next) == IF ch = "invalid" THEN "failed" ELSE next

\* try { chrome.runtime && chrome.runtime.sendMessage(...) } catch (e) { warn }:
\* where the function stands after a send, next being the statement that follows
AfterSend(ch, next) == next

\* The turn of the current lesson ends: the lesson is stored and the two loops
\* move to the iteration that follows.
EndTurn(how, lesson) ==
    /\ chapters' = WithLesson(lesson)
    /\ turns' = Append(turns, [how |-> how, lesson |-> lesson])
    /\ ci' = NextLesson(chapters, ci, li)[1]
    /\ li' = NextLesson(chapters, ci, li)[2]
    /\ target' = 0
    /\ waited' = 0

\* ------------------------------------------------------------------ clickThroughAndScrapeCourse

\* A variant in which the flag is also looked at between two polls of the load
\* wait, which would make cancellation preemptive.
AtAnyPause == spc \in {"check", "between", "wait"}

\* The function is at the top of an iteration: it continues there without
\* yielding ("check"), or its sleep(500) between two lessons is over ("between").
AtIterationTop == spc \in {"check", "between"}


popupIdle == <<isScraping, currentTabId, wasCancelled, startDisabled,
               cancelDisabled, downloads>>

\* The injected function starts in the page: flag initialisation, chapter
\* resolution, plan building and the init message.  Zero chapter containers, or
\* an exception while the plan is built, reach the outer catch, which rethrows.
PageStart ==
    /\ rpc = "inject"
    /\ rpc' = "running"
    /\ tcsCancelled' = InitialFlag(tcsCancelled)
    /\ IF Len(Document(page)) = 0 \/ PlanThrows(Document(page))
       THEN /\ spc' = "failed"
            /\ outcome' = "failed"
            /\ fatalMessage' = IF Len(Document(page)) = 0 THEN ErrNoChapters ELSE ErrTypeError
            /\ chapters' = <<>>
            /\ totalLessons' = 0
            /\ ci' = 1 /\ li' = 1
            /\ events' = <<>>
            /\ UNCHANGED inbox
       ELSE /\ spc' = AfterSend(channel, "check")
            /\ outcome' = "none"
            /\ fatalMessage' = <<>>
            /\ chapters' = BuildChapters(Document(page))
            /\ totalLessons' = CountLessons(chapters')
            /\ ci' = SeekLesson(chapters', 1, 1)[1]
            /\ li' = SeekLesson(chapters', 1, 1)[2]
            /\ events' = <<InitEvent(totalLessons')>>
            /\ inbox' = Delivered(channel, inbox, <<"tcs-init">>)
    /\ completed' = 0 /\ processedLessons' = 0 /\ cancelled' = FALSE
    /\ target' = 0 /\ waited' = 0 /\ clicks' = <<>> /\ turns' = <<>>
    /\ flagSetAt' = [turn |-> 0, at |-> IF tcsCancelled THEN "before" ELSE "never"]
    /\ finalData' = NoData
    /\ UNCHANGED <<page, popupIdle, cancelInFlight, cancelRequested>>
    /\ UNCHANGED <<helperVars, runVars>>

\* Both loops are exhausted: the done message is sent and the data returned.
FinishLoop ==
    /\ AtIterationTop
    /\ LoopExhausted
    /\ Send(TerminalEvents(cancelled, completed, totalLessons))
    /\ spc' = AfterSend(channel, "returned")
    /\ outcome' = "returned"
    /\ finalData' = FinalData(cancelled, chapters, totalLessons)
    /\ UNCHANGED <<page, tcsCancelled, chapters, ci, li, totalLessons, completed,
                   processedLessons, cancelled, target, waited, clicks, turns,
                   flagSetAt, fatalMessage, popupVars, cancelInFlight,
                   cancelRequested>>
    /\ UNCHANGED <<helperVars, runVars>>

\* The check at the top of an iteration sees the flag: the cancelled message is
\* sent, both loops are left and the data returned.
ObserveCancel ==
    /\ AtIterationTop
    /\ ~LoopExhausted
    /\ CancellationObserved(tcsCancelled)
    /\ Send(<<CancelledEvent(completed, totalLessons)>>
            \o TerminalEvents(TRUE, completed, totalLessons))
    /\ cancelled' = TRUE
    /\ spc' = AfterSend(channel, "returned")
    /\ outcome' = "returned"
    /\ finalData' = FinalData(TRUE, chapters, totalLessons)
    /\ UNCHANGED <<page, tcsCancelled, chapters, ci, li, totalLessons, completed,
                   processedLessons, target, waited, clicks, turns, flagSetAt,
                   fatalMessage, popupVars, cancelInFlight, cancelRequested>>
    /\ UNCHANGED <<helperVars, runVars>>

\* The lesson's turn begins: its card is looked up among the cards of the
\* document.  Not found: the error is recorded and the next iteration follows
\* without yielding.  Found: the click target is scrolled into view and the
\* function sleeps 200 ms.
LocateLesson ==
    /\ AtIterationTop
    /\ ~LoopExhausted
    /\ ~CancellationObserved(tcsCancelled)
    /\ processedLessons' = processedLessons + 1
    /\ LET found == LocateCard(AllCards(Document(page)), CurrentLesson.title)
       IN  IF found = 0
           THEN /\ EndTurn("notfound", FailedLesson(CurrentLesson, ErrNotFound))
                /\ spc' = "check"
           ELSE /\ target' = found
                /\ spc' = "scroll"
                /\ UNCHANGED <<chapters, ci, li, turns, waited>>
    /\ UNCHANGED <<page, tcsCancelled, totalLessons, completed, cancelled,
                   events, clicks, flagSetAt, outcome, finalData, fatalMessage,
                   popupVars, inbox, cancelInFlight, cancelRequested>>
    /\ UNCHANGED <<helperVars, runVars>>

\* What a DOM operation of the click step raises: nothing, an error with a
\* message, or an error whose message is empty.
NoThrow == <<"nothrow">>
ClickThrows == {NoThrow, ErrDom, <<>>}

\* After the 200 ms: the full pointer/mouse event sequence is dispatched on the
\* target and the function sleeps 500 ms before waitForLessonLoaded.  An
\* exception is caught by the lesson's catch, which records it; the next
\* iteration follows without yielding.
ClickLesson ==
    /\ spc = "scroll"
    /\ \E thrown \in ClickThrows :
         IF thrown = NoThrow
         THEN /\ clicks' = Append(clicks, [lesson |-> processedLessons, card |-> target])
              /\ spc' = "wait"
              /\ UNCHANGED <<chapters, ci, li, turns, target, waited>>
         ELSE /\ EndTurn("threw", FailedLesson(CurrentLesson, CaughtMessage(thrown)))
              /\ spc' = "check"
              /\ UNCHANGED clicks
    /\ UNCHANGED <<page, tcsCancelled, totalLessons, completed, processedLessons,
                   cancelled, events, flagSetAt, outcome, finalData, fatalMessage,
                   popupVars, inbox, cancelInFlight, cancelRequested>>
    /\ UNCHANGED <<helperVars, runVars>>

\* The title element waitForLessonLoaded finds at a poll: none, the title the
\* panel shows while nothing is loaded, or the panel title of the clicked card.
ShownTitles == {NoEl, StaleTitle, AllCards(Document(page))[target].edTitle}

\* the test `titleEl && currentText === normalizedExpected` of one poll
TitleMatches(shown, expectedTitle) ==
    shown # NoEl /\ normalize(shown) = normalize(expectedTitle)

\* One poll of waitForLessonLoaded, made while the clock reads less than the
\* timeout: on a match the function sleeps the extra 500 ms and returns true,
\* otherwise it sleeps 500 ms and reads the clock again.
PollLoaded ==
    /\ spc = "wait"
    /\ waited < LoadTimeoutMs
    /\ \E shown \in ShownTitles :
         IF TitleMatches(shown, CurrentLesson.title)
         THEN spc' = "loaded" /\ waited' = 0
         ELSE /\ spc' = "wait"
              /\ \E slept \in SleepTimes(PollIntervalMs) : waited' = waited + slept
    /\ UNCHANGED <<page, tcsCancelled, chapters, ci, li, totalLessons, completed,
                   processedLessons, cancelled, target, events, clicks, turns,
                   flagSetAt, outcome, finalData, fatalMessage, popupVars, inbox,
                   cancelInFlight, cancelRequested>>
    /\ UNCHANGED <<helperVars, runVars>>

\* A variant of the end of the wait that gives up at any reading of the clock.
LoadTimeoutEarly ==
    /\ spc = "wait"
    /\ EndTurn("timeout", FailedLesson(CurrentLesson, ErrTimeout))
    /\ spc' = "check"
    /\ UNCHANGED <<page, tcsCancelled, totalLessons, completed, processedLessons,
                   cancelled, events, clicks, flagSetAt, outcome, finalData,
                   fatalMessage, popupVars, inbox, cancelInFlight, cancelRequested>>
    /\ UNCHANGED <<helperVars, runVars>>

\* The clock reads the timeout of waitForLessonLoaded or more: it returns false,
\* the error is recorded and the next iteration follows without yielding.
LoadTimeout ==
    /\ spc = "wait"
    /\ ~(waited < LoadTimeoutMs)
    /\ EndTurn("timeout", FailedLesson(CurrentLesson, ErrTimeout))
    /\ spc' = "check"
    /\ UNCHANGED <<page, tcsCancelled, totalLessons, completed, processedLessons,
                   cancelled, events, clicks, flagSetAt, outcome, finalData,
                   fatalMessage, popupVars, inbox, cancelInFlight, cancelRequested>>
    /\ UNCHANGED <<helperVars, runVars>>

\* The lesson is loaded: the editor text is extracted and stored (or the
\* extraction error recorded), completed is incremented, the progress message
\* sent, and the function sleeps 500 ms before the next iteration.
ExtractLesson ==
    /\ spc = "loaded"
    /\ \E kind \in EditorKinds :
         LET textResult == extractLessonText(kind, AllCards(Document(page))[target].html,
                                             AllCards(Document(page))[target].plain)
         IN  EndTurn(IF textResult.found THEN "extracted" ELSE "noeditor",
                     ExtractedLesson(CurrentLesson, textResult))
    /\ completed' = completed + 1
    /\ Send(<<ProgressEvent(completed + 1, totalLessons, CurrentLesson.title)>>)
    /\ spc' = AfterSend(channel, "between")
    /\ UNCHANGED <<page, tcsCancelled, totalLessons, processedLessons, cancelled,
                   clicks, flagSetAt, outcome, finalData, fatalMessage,
                   popupVars, cancelInFlight, cancelRequested>>
    /\ UNCHANGED <<helperVars, runVars>>

\* ------------------------------------------------------------------ popup

\* the tab chrome.tabs.query resolves to: none, a tab of another site, or the
\* Thinkific tab (whose id is 1)
Tabs == {"none", "other", "thinkific"}

\* the popup is open: its listeners and its runScrape are alive
PopupOpen == channel = "open"

\* the reset that ends runScrape (its finally block, and its early exits)
PopupReset ==
    /\ isScraping' = FALSE
    /\ startDisabled' = FALSE
    /\ cancelDisabled' = TRUE

\* Start is clicked: runScrape resets the error list and the status, and awaits
\* chrome.tabs.query.  The user clicks once the previous runScrape has ended and
\* the messages of the previous run have been handled.
StartClick ==
    /\ PopupOpen
    /\ ~startDisabled
    /\ rpc = "idle"
    /\ inbox = <<>>
    /\ rpc' = "query"
    /\ cancelRequested' = FALSE
    /\ downloads' = 0
    /\ UNCHANGED <<page, pageVars, isScraping, currentTabId, wasCancelled,
                   startDisabled, cancelDisabled, inbox, cancelInFlight>>
    /\ UNCHANGED <<helperVars, runVars>>

\* The tab query resolves.  Without a Thinkific tab runScrape returns through
\* its finally block; otherwise it sets the run state, updates the buttons and
\* awaits the injection of selectors.js and utils.js (rpc = "files").
RunScrapeTab ==
    /\ PopupOpen
    /\ rpc = "query"
    /\ \E tab \in Tabs :
         IF tab = "thinkific"
         THEN /\ isScraping' = TRUE
              /\ currentTabId' = 1
              /\ wasCancelled' = FALSE
              /\ startDisabled' = TRUE
              /\ cancelDisabled' = FALSE
              /\ rpc' = "files"
         ELSE /\ PopupReset
              /\ rpc' = "idle"
              /\ UNCHANGED <<currentTabId, wasCancelled>>
    /\ UNCHANGED <<page, pageVars, downloads, inbox, cancelInFlight,
                   cancelRequested>>
    /\ UNCHANGED <<helperVars, runVars>>

\* A variant of the result handling that downloads whatever was returned.
RunScrapeResultAlwaysDownloading ==
    /\ PopupOpen
    /\ rpc = "running"
    /\ outcome = "returned"
    /\ downloads' = downloads + 1
    /\ rpc' = "download"
    /\ UNCHANGED <<isScraping, startDisabled, cancelDisabled>>
    /\ UNCHANGED <<page, pageVars, currentTabId, wasCancelled, inbox,
                   cancelInFlight, cancelRequested>>
    /\ UNCHANGED <<helperVars, runVars>>

\* executeScript resolves with the data the function returned.  A cancelled run
\* (by the data or by a cancelled message seen) is not downloaded; otherwise
\* chrome.downloads.download is called and awaited.
RunScrapeResult ==
    /\ PopupOpen
    /\ rpc = "running"
    /\ outcome = "returned"
    /\ IF finalData.cancelled \/ wasCancelled
       THEN /\ PopupReset
            /\ rpc' = "idle"
            /\ UNCHANGED downloads
       ELSE /\ downloads' = downloads + 1
            /\ rpc' = "download"
            /\ UNCHANGED <<isScraping, startDisabled, cancelDisabled>>
    /\ UNCHANGED <<page, pageVars, currentTabId, wasCancelled, inbox,
                   cancelInFlight, cancelRequested>>
    /\ UNCHANGED <<helperVars, runVars>>

\* The injection of selectors.js and utils.js resolves: runScrape injects
\* clickThroughAndScrapeCourse and awaits its result (rpc = "inject": the
\* function is in the page and has not taken its first step).
RunScrapeFiles ==
    /\ PopupOpen
    /\ rpc = "files"
    /\ rpc' = "inject"
    /\ UNCHANGED <<page, pageVars, isScraping, currentTabId, wasCancelled,
                   startDisabled, cancelDisabled, downloads, inbox,
                   cancelInFlight, cancelRequested>>
    /\ UNCHANGED <<helperVars, runVars>>

\* The catch block of runScrape: the injection of selectors.js and utils.js
\* rejects, or executeScript rejects with the fatal error of the function;
\* runScrape shows the error and ends through its finally block.
RunScrapeError ==
    /\ PopupOpen
    /\ \/ rpc = "files"
       \/ rpc = "running" /\ outcome = "failed"
    /\ PopupReset
    /\ rpc' = "idle"
    /\ UNCHANGED <<page, pageVars, currentTabId, wasCancelled, downloads,
                   inbox, cancelInFlight, cancelRequested>>
    /\ UNCHANGED <<helperVars, runVars>>

\* The download call resolves: runScrape resets the state and ends.
RunScrapeDownloaded ==
    /\ PopupOpen
    /\ rpc = "download"
    /\ PopupReset
    /\ rpc' = "idle"
    /\ UNCHANGED <<page, pageVars, currentTabId, wasCancelled, downloads,
                   inbox, cancelInFlight, cancelRequested>>
    /\ UNCHANGED <<helperVars, runVars>>

\* The onMessage listener handles the next message.
PopupReceive ==
    /\ PopupOpen
    /\ inbox # <<>>
    /\ inbox' = Tail(inbox)
    /\ IF Head(inbox) = "tcs-init"
       THEN /\ wasCancelled' = FALSE
            /\ UNCHANGED <<isScraping, startDisabled, cancelDisabled>>
       ELSE /\ wasCancelled' = (Head(inbox) = "tcs-cancelled")
            /\ PopupReset
    /\ UNCHANGED <<page, pageVars, currentTabId, rpc, downloads,
                   cancelInFlight, cancelRequested>>
    /\ UNCHANGED <<helperVars, runVars>>

\* Cancel is clicked while a scrape is active: the handler asks the page to set
\* the flag.  (The click does nothing otherwise.)
CancelClick ==
    /\ PopupOpen
    /\ ~cancelDisabled
    /\ isScraping /\ currentTabId # 0
    /\ ~cancelInFlight
    /\ cancelInFlight' = TRUE
    /\ cancelRequested' = TRUE
    /\ UNCHANGED <<page, pageVars, popupVars, inbox>>
    /\ UNCHANGED <<helperVars, runVars>>

\* The function injected by the Cancel handler runs in the page, between two
\* tasks of the page: window.__TCS_CANCELLED = true.
CancelApply ==
    /\ cancelInFlight
    /\ spc # "check"
    /\ cancelInFlight' = FALSE
    /\ tcsCancelled' = TRUE
    /\ flagSetAt' = IF tcsCancelled THEN flagSetAt
                    ELSE [turn |-> processedLessons, at |-> spc]
    /\ UNCHANGED <<page, spc, chapters, ci, li, totalLessons, completed,
                   processedLessons, cancelled, target, waited, events, clicks,
                   turns, outcome, finalData, fatalMessage, popupVars, inbox,
                   cancelRequested>>
    /\ UNCHANGED <<helperVars, runVars>>

\* ------------------------------------------------------------------ specification

Next ==
    \/ StartClick
    \/ RunScrapeTab
    \/ RunScrapeFiles
    \/ PageStart
    \/ FinishLoop
    \/ ObserveCancel
    \/ LocateLesson
    \/ ClickLesson
    \/ PollLoaded
    \/ LoadTimeout
    \/ ExtractLesson
    \/ RunScrapeResult
    \/ RunScrapeError
    \/ RunScrapeDownloaded
    \/ PopupReceive
    \/ CancelClick
    \/ CancelApply

Spec == Init /\ [][Next]_vars

\* The steps of the injected function are continuations of timers and of
\* awaited promises: once one is due it runs, provided time advances.  Nothing
\* obliges the user to click, nor the popup to stay open.  The start of the
\* function and the start of a lesson's turn are named by their guard and by
\* the variable that only they change in this way (PageStart is the only step
\* from rpc = "inject", LocateLesson the only one to count a lesson in).
StartDue == rpc = "inject" /\ rpc' = "running"
TurnDue ==
    /\ AtIterationTop
    /\ ~LoopExhausted
    /\ ~CancellationObserved(tcsCancelled)
    /\ processedLessons' = processedLessons + 1

SpecFair ==
    /\ Spec
    /\ WF_rpc(StartDue)
    /\ WF_processedLessons(TurnDue)
    /\ WF_vars(FinishLoop)
    /\ WF_vars(ObserveCancel)
    /\ WF_vars(ClickLesson)
    /\ WF_vars(PollLoaded)
    /\ WF_vars(LoadTimeout)
    /\ WF_vars(ExtractLesson)

\* ------------------------------------------------------------------ a popup that goes away

\* The popup is closed, or the extension is reloaded, while the function runs in
\* the page: the listeners and runScrape are gone with the messages not yet
\* handled, and from then on sendMessage finds no receiver, or throws.
PopupCloses ==
    /\ PopupOpen
    /\ rpc \in {"files", "inject", "running"}
    /\ channel' \in {"closed", "invalid"}
    /\ inbox' = <<>>
    /\ UNCHANGED <<page, pageVars, popupVars, cancelInFlight, cancelRequested,
                   helperVars, runs, status, cancelClicks, cancelScripts>>

NextLossy ==
    \/ Next
    \/ PopupCloses

\* the pages on which the runs of a popup that goes away are followed
LossyPages == {"none", "one", "svg", "gap", "duplicate"}

InitLossy ==
    /\ page \in LossyPages
    /\ Idle
    /\ args = NoCall /\ ret = NotReturned /\ proc = NoProc

SpecLossy == InitLossy /\ [][NextLossy]_vars

\* The steps of the function are due as in SpecFair; nothing obliges the popup
\* to handle a message, nor to stay open.
SpecLossyFair ==
    /\ SpecLossy
    /\ WF_rpc(StartDue)
    /\ WF_processedLessons(TurnDue)
    /\ WF_vars(FinishLoop)
    /\ WF_vars(ObserveCancel)
    /\ WF_vars(ClickLesson)
    /\ WF_vars(PollLoaded)
    /\ WF_vars(LoadTimeout)
    /\ WF_vars(ExtractLesson)

\* ------------------------------------------------------------------ overlapping runs of the popup

\* Spec follows one run of runScrape at a time, lesson by lesson, and one
\* script of the Cancel handler at a time.  The Start handler itself calls
\* runScrape() on every click, and the button is not disabled before
\* chrome.tabs.query has resolved; the onMessage listener enables it again on
\* tcs-done and tcs-cancelled; the Cancel handler calls executeScript on every
\* click that passes its guard.  SpecPopup follows every call of runScrape, each
\* at its own await, every message the listener handles and every script of
\* the Cancel handler, with a lesson's turn of the injected function reduced to
\* one step.

MaxRuns == 2
MaxCancelClicks == 2

\* everything of the injected function that this study leaves aside
loopLocals == <<spc, chapters, ci, li, totalLessons, completed, processedLessons,
                cancelled, target, waited, events, clicks, turns, flagSetAt,
                outcome, finalData, fatalMessage>>

PopupFrame ==
    UNCHANGED <<page, loopLocals, rpc, cancelInFlight, cancelRequested,
                helperVars, channel>>

\* the pages the overlapping runs are followed on
PopupPages == {"none", "one"}

\* The Cancel button of popup.html may or may not carry the disabled attribute
\* when the popup opens.
InitPopup ==
    /\ page \in PopupPages
    /\ IdleButCancelButton
    /\ cancelDisabled \in BOOLEAN
    /\ args = NoCall /\ ret = NotReturned /\ proc = NoProc

RunAt(r, pc) == runs' = [runs EXCEPT ![r].pc = pc]
Ended(r) == runs' = [runs EXCEPT ![r].pc = "ended"]

\* the titles of the lessons of the plan, in the order of the two loops
RECURSIVE PlanTitles(_, _, _)
PlanTitles(pg, c, l) ==
    IF c > Len(pg) THEN <<>>
    ELSE IF l > Len(pg[c].cards) THEN PlanTitles(pg, c + 1, 1)
    ELSE <<LessonTitleOf(pg[c].cards[l], l - 1)>> \o PlanTitles(pg, c, l + 1)

\* the characters of a title as one string
RECURSIVE Join(_)
Join(s) == IF s = <<>> THEN "" ELSE Head(s) \o Join(Tail(s))

\* A variant of the guard of the Cancel handler that never returns early.
CancelIgnoredNever(scraping, tabId) == FALSE

\* if (!isScraping || !currentTabId) return;
CancelIgnored(scraping, tabId) == ~scraping \/ tabId = 0

\* A variant of the finally block that leaves the Cancel button as it is.
RunScrapeFinallyKeepingCancel ==
    /\ isScraping' = FALSE
    /\ startDisabled' = FALSE
    /\ UNCHANGED cancelDisabled

\* the finally block of runScrape
RunScrapeFinally == PopupReset

\* startButton's click listener: runScrape() up to its first await
PStartClick ==
    /\ ~startDisabled
    /\ Len(runs) < MaxRuns
    /\ runs' = Append(runs, [pc |-> "query", loop |-> "none", turn |-> 0, completed |-> 0])
    /\ status' = "Preparing to scrape..."
    /\ UNCHANGED <<tcsCancelled, isScraping, currentTabId, wasCancelled,
                   startDisabled, cancelDisabled, downloads, inbox,
                   cancelScripts, cancelClicks>>
    /\ PopupFrame

\* chrome.tabs.query settles for one of the calls
PTabQueried ==
    \E r \in DOMAIN runs :
      /\ runs[r].pc = "query"
      /\ \E tab \in Tabs \cup {"rejects"} :
           IF tab = "thinkific"
           THEN /\ isScraping' = TRUE
                /\ currentTabId' = 1
                /\ wasCancelled' = FALSE
                /\ startDisabled' = TRUE
                /\ cancelDisabled' = FALSE
                /\ status' = "Injecting scraper scripts into Thinkific page..."
                /\ RunAt(r, "files")
           ELSE /\ status' = (CASE tab = "none" -> "No active tab found."
                                [] tab = "other" -> "Please navigate to a Thinkific course curriculum page before starting."
                                [] tab = "rejects" -> "Error")
                /\ RunScrapeFinally
                /\ Ended(r)
                /\ UNCHANGED <<currentTabId, wasCancelled>>
      /\ UNCHANGED <<tcsCancelled, downloads, inbox, cancelScripts, cancelClicks>>
      /\ PopupFrame

\* the injection of selectors.js and utils.js settles; when it resolved,
\* runScrape injects clickThroughAndScrapeCourse
PFilesInjected ==
    \E r \in DOMAIN runs :
      /\ runs[r].pc = "files"
      /\ \E resolved \in BOOLEAN :
           IF resolved
           THEN /\ status' = "Starting click-through scraping..."
                /\ runs' = [runs EXCEPT ![r].pc = "func", ![r].loop = "injected"]
                /\ UNCHANGED <<isScraping, startDisabled, cancelDisabled>>
           ELSE /\ status' = "Error"
                /\ RunScrapeFinally
                /\ Ended(r)
      /\ UNCHANGED <<tcsCancelled, currentTabId, wasCancelled, downloads, inbox,
                     cancelScripts, cancelClicks>>
      /\ PopupFrame

\* the injected function starts in the page: it initialises the flag, builds
\* its plan and sends tcs-init, or fails on a page without chapters or while
\* the plan is built
PLoopStart ==
    \E r \in DOMAIN runs :
      /\ runs[r].loop = "injected"
      /\ tcsCancelled' = InitialFlag(tcsCancelled)
      /\ IF Len(Document(page)) = 0 \/ PlanThrows(Document(page))
         THEN /\ runs' = [runs EXCEPT ![r].loop = "failed"]
              /\ UNCHANGED inbox
         ELSE /\ runs' = [runs EXCEPT ![r].loop = "running",
                                      ![r].turn = 0, ![r].completed = 0]
              /\ inbox' = Append(inbox,
                                 InitEvent(Len(PlanTitles(Document(page), 1, 1))))
      /\ UNCHANGED <<isScraping, currentTabId, wasCancelled, startDisabled,
                     cancelDisabled, downloads, cancelScripts, status, cancelClicks>>
      /\ PopupFrame

\* the check at the top of the iteration of the next lesson of the plan does
\* not see the flag: the turn begins, and runs to its first await
PLoopCheck ==
    \E r \in DOMAIN runs :
      /\ runs[r].loop = "running"
      /\ runs[r].turn < Len(PlanTitles(Document(page), 1, 1))
      /\ ~CancellationObserved(tcsCancelled)
      /\ runs' = [runs EXCEPT ![r].loop = "turn"]
      /\ UNCHANGED <<tcsCancelled, isScraping, currentTabId, wasCancelled,
                     startDisabled, cancelDisabled, downloads, cancelScripts,
                     status, cancelClicks, inbox>>
      /\ PopupFrame

\* the turn of a lesson ends, after its waits, whatever the flag has become:
\* the lesson is loaded, counted and reported with tcs-progress, or its turn
\* ends with an error and without a message; the next check follows
PLoopTurn ==
    \E r \in DOMAIN runs :
      LET plan == PlanTitles(Document(page), 1, 1) IN
      /\ runs[r].loop = "turn"
      /\ \E loaded \in BOOLEAN :
           IF loaded
           THEN /\ runs' = [runs EXCEPT ![r].turn = @ + 1, ![r].completed = @ + 1,
                                        ![r].loop = "running"]
                /\ inbox' = Append(inbox,
                                   ProgressEvent(runs[r].completed + 1, Len(plan),
                                                 plan[runs[r].turn + 1]))
           ELSE /\ runs' = [runs EXCEPT ![r].turn = @ + 1, ![r].loop = "running"]
                /\ UNCHANGED inbox
      /\ UNCHANGED <<tcsCancelled, isScraping, currentTabId, wasCancelled,
                     startDisabled, cancelDisabled, downloads, cancelScripts,
                     status, cancelClicks>>
      /\ PopupFrame

\* the injected function leaves its loops: at a check that saw the flag, or
\* after the last lesson
PLoopEnds ==
    \E r \in DOMAIN runs :
      LET plan == PlanTitles(Document(page), 1, 1) IN
      /\ runs[r].loop = "running"
      /\ IF runs[r].turn < Len(plan)
         THEN /\ CancellationObserved(tcsCancelled)
              /\ runs' = [runs EXCEPT ![r].loop = "cancelled"]
              /\ inbox' = Append(inbox, CancelledEvent(runs[r].completed, Len(plan)))
         ELSE /\ runs' = [runs EXCEPT ![r].loop = "returned"]
              /\ inbox' = inbox \o TerminalEvents(FALSE, runs[r].completed, Len(plan))
      /\ UNCHANGED <<tcsCancelled, isScraping, currentTabId, wasCancelled,
                     startDisabled, cancelDisabled, downloads, cancelScripts,
                     status, cancelClicks>>
      /\ PopupFrame

\* executeScript of the function settles in runScrape.  For a function that
\* threw, the browser either rejects the call or resolves it without a result.
PScriptSettles ==
    \E r \in DOMAIN runs :
      /\ runs[r].pc = "func"
      /\ runs[r].loop \in {"returned", "cancelled", "failed"}
      /\ IF runs[r].loop = "failed"
         THEN /\ status' \in {"Error", "No data returned from scraper."}
              /\ RunScrapeFinally
              /\ Ended(r)
              /\ UNCHANGED downloads
         ELSE IF runs[r].loop = "cancelled" \/ wasCancelled
         THEN /\ status' = "Scraping cancelled. No file downloaded."
              /\ RunScrapeFinally
              /\ Ended(r)
              /\ UNCHANGED downloads
         ELSE /\ status' = "Creating download file..."
              /\ downloads' = downloads + 1
              /\ RunAt(r, "download")
              /\ UNCHANGED <<isScraping, startDisabled, cancelDisabled>>
      /\ UNCHANGED <<tcsCancelled, currentTabId, wasCancelled, inbox,
                     cancelScripts, cancelClicks>>
      /\ PopupFrame

\* chrome.downloads.download settles
PDownloadSettles ==
    \E r \in DOMAIN runs :
      /\ runs[r].pc = "download"
      /\ status' \in {"Complete!", "Error"}
      /\ RunScrapeFinally
      /\ Ended(r)
      /\ UNCHANGED <<tcsCancelled, currentTabId, wasCancelled, downloads, inbox,
                     cancelScripts, cancelClicks>>
      /\ PopupFrame

\* the onMessage listener handles the next message
PReceive ==
    /\ inbox # <<>>
    /\ inbox' = Tail(inbox)
    /\ LET message == Head(inbox) IN
       IF message.type = "tcs-init"
       THEN /\ wasCancelled' = FALSE
            /\ status' = "Scanning lessons..."
            /\ UNCHANGED <<isScraping, startDisabled, cancelDisabled>>
       ELSE IF message.type = "tcs-progress"
       THEN /\ status' = IF message.lessonTitle # <<>>
                         THEN "Scraping: " \o Join(message.lessonTitle)
                         ELSE status
            /\ UNCHANGED <<wasCancelled, isScraping, startDisabled, cancelDisabled>>
       ELSE /\ wasCancelled' = (message.type = "tcs-cancelled")
            /\ status' = (IF message.type = "tcs-cancelled"
                          THEN "Scraping cancelled. No file downloaded."
                          ELSE "Scraping complete. Downloading JSON...")
            /\ PopupReset
    /\ UNCHANGED <<tcsCancelled, currentTabId, downloads, cancelScripts, runs,
                   cancelClicks>>
    /\ PopupFrame

\* cancelButton's click listener up to its await: every click that passes the
\* guard calls executeScript
PCancelClick ==
    /\ ~cancelDisabled
    /\ cancelClicks < MaxCancelClicks
    /\ cancelClicks' = cancelClicks + 1
    /\ IF CancelIgnored(isScraping, currentTabId)
       THEN UNCHANGED cancelScripts
       ELSE cancelScripts' = [cancelScripts EXCEPT !.called = @ + 1]
    /\ UNCHANGED <<tcsCancelled, isScraping, currentTabId, wasCancelled,
                   startDisabled, cancelDisabled, downloads, inbox, runs, status>>
    /\ PopupFrame

\* a script of the Cancel handler runs in the page, between two tasks of the
\* page: window.__TCS_CANCELLED = true
PCancelRuns ==
    /\ cancelScripts.called > 0
    /\ cancelScripts' = [called |-> cancelScripts.called - 1,
                         ran |-> cancelScripts.ran + 1]
    /\ tcsCancelled' = TRUE
    /\ UNCHANGED <<isScraping, currentTabId, wasCancelled, startDisabled,
                   cancelDisabled, downloads, inbox, runs, status, cancelClicks>>
    /\ PopupFrame

\* the promise of a script of the Cancel handler settles in the popup, and the
\* handler shows its status: it resolves for a script that ran in the page, it
\* is rejected for a script that did not
PCancelSettles ==
    /\ \/ /\ cancelScripts.ran > 0
          /\ cancelScripts' = [cancelScripts EXCEPT !.ran = @ - 1]
          /\ status' = "Cancel requested... Finishing current lesson."
       \/ /\ cancelScripts.called > 0
          /\ cancelScripts' = [cancelScripts EXCEPT !.called = @ - 1]
          /\ status' = "Error requesting cancel. See console."
    /\ UNCHANGED <<tcsCancelled, isScraping, currentTabId, wasCancelled,
                   startDisabled, cancelDisabled, downloads, inbox, runs,
                   cancelClicks>>
    /\ PopupFrame

NextPopup ==
    \/ PStartClick
    \/ PTabQueried
    \/ PFilesInjected
    \/ PLoopStart
    \/ PLoopCheck
    \/ PLoopTurn
    \/ PLoopEnds
    \/ PScriptSettles
    \/ PDownloadSettles
    \/ PReceive
    \/ PCancelClick
    \/ PCancelRuns
    \/ PCancelSettles

SpecPopup == InitPopup /\ [][NextPopup]_vars

\* ------------------------------------------------------------------ content-scraper.js

ErrNoChaptersOnMap == <<"No chapters found. Make sure you are on the course curriculum page. Check console for debug info.">>

\* extractText(container, selectorArray): the trimmed text of the title element
\* when one is found, else the trimmed text of the container itself
extractText(titleEl, containerText) ==
    IF titleEl # NoEl THEN Trim(titleEl) ELSE Trim(containerText)

\* textContent of a lesson card and of a chapter container: the text of their
\* descendants in document order
CardTextContent(card) == IF card.title = NoEl THEN <<>> ELSE card.title

RECURSIVE CardsTextContent(_)
CardsTextContent(cards) ==
    IF cards = <<>> THEN <<>>
    ELSE CardTextContent(Head(cards)) \o CardsTextContent(Tail(cards))

ChapterTextContent(chapter) ==
    (IF chapter.title = NoEl THEN <<>> ELSE chapter.title) \o CardsTextContent(chapter.cards)

\* x || fallback for a string x
OrElse(x, fallback) == IF x = <<>> THEN fallback ELSE x

\* The cards of the model pages carry no link, no data-url attribute and no
\* onclick, and a click on them does not change the location: getLessonUrl and
\* captureLessonUrlByClick both answer null.
LessonUrlOf(card) == Null

\* the entry pushed by the catch branch of the lesson loop
MapLessonAfterError(chapterIndex, lessonIndex, message) ==
    [title |-> Str_Lesson \o NumToString(lessonIndex + 1),
     type |-> Str_unknown,
     url |-> Null,
     error |-> message]

\* the entry pushed by a turn of the lesson loop that reaches its end
MapLesson(card, chapterIndex, lessonIndex) ==
    [title |-> OrElse(extractText(card.title, CardTextContent(card)),
                      Str_Lesson \o NumToString(lessonIndex + 1)),
     type |-> detectLessonType(card),
     url |-> LessonUrlOf(card),
     chapterIndex |-> chapterIndex,
     lessonIndex |-> lessonIndex]

\* The locals of a call of buildCourseMap.  chapterElements are the containers
\* found at the start of the call, each with what it holds now; lessonElements
\* are the cards found when the chapter loop reached the current chapter, each
\* with what it holds now; pending is the entry of the turn that sleeps, whose
\* title and type were read before the click.
MapLocals(chapterElements) ==
    [pc |-> "run",
     chapterElements |-> chapterElements,
     chapterIndex |-> 0,
     inChapter |-> FALSE,
     chapterTitle |-> <<>>,
     lessonElements |-> <<>>,
     lessonIndex |-> 0,
     pending |-> <<>>,
     lessons |-> <<>>,
     chapters |-> <<>>,
     totalLessons |-> 0,
     clicks |-> 0,
     renders |-> 0]

\* the top of a turn of the chapter loop: the title and the cards are read from
\* the container as it is at that time
EnterChapter(st) ==
    LET chapterElement == st.chapterElements[st.chapterIndex + 1] IN
    [st EXCEPT !.inChapter = TRUE,
               !.chapterTitle =
                   OrElse(extractText(chapterElement.title,
                                      ChapterTextContent(chapterElement)),
                          Str_Chapter \o NumToString(st.chapterIndex + 1)),
               !.lessonElements = chapterElement.cards,
               !.lessonIndex = 0,
               !.lessons = <<>>]

\* the end of a turn of the chapter loop
PushChapter(st) ==
    [st EXCEPT !.chapters = Append(@, [chapterTitle |-> st.chapterTitle,
                                       lessons |-> st.lessons,
                                       chapterIndex |-> st.chapterIndex]),
               !.chapterIndex = @ + 1,
               !.inChapter = FALSE]

\* the end of a turn of the lesson loop: through lessons.push and
\* totalLessons++, or through the catch branch, which does not count
PushLesson(st, entry, counted) ==
    [st EXCEPT !.lessons = Append(@, entry),
               !.lessonIndex = @ + 1,
               !.totalLessons = IF counted THEN @ + 1 ELSE @]

\* buildCourseMap runs on until it awaits or returns.  A card whose type
\* detection throws is pushed by the catch branch at once; for any other card
\* getLessonUrl answers null, so captureLessonUrlByClick clicks the card and
\* awaits sleep(1000).
RECURSIVE MapRun(_)
MapRun(st) ==
    IF st.chapterIndex >= Len(st.chapterElements)
    THEN [st EXCEPT !.pc = "returned"]
    ELSE IF ~st.inChapter
    THEN MapRun(EnterChapter(st))
    ELSE IF st.lessonIndex >= Len(st.lessonElements)
    THEN MapRun(PushChapter(st))
    ELSE IF detectLessonType(st.lessonElements[st.lessonIndex + 1]) = ThrowsTypeError
    THEN MapRun(PushLesson(st, MapLessonAfterError(st.chapterIndex, st.lessonIndex,
                                                   ErrTypeError), FALSE))
    ELSE [st EXCEPT !.pc = "sleep", !.clicks = @ + 1,
                    !.pending = MapLesson(st.lessonElements[st.lessonIndex + 1],
                                          st.chapterIndex, st.lessonIndex)]

\* captureLessonUrlByClick wakes with the location unchanged and answers null:
\* the turn pushes its entry, counts it, and the loop runs on
MapWake(st) ==
    MapRun(PushLesson([st EXCEPT !.pending = <<>>], st.pending, TRUE))

\* the course map buildCourseMap returns
CourseMap(st) ==
    [threw |-> FALSE,
     totalChapters |-> Len(st.chapters),
     totalLessons |-> st.totalLessons,
     chapters |-> st.chapters]

\* The page renders the curriculum of another page while buildCourseMap
\* sleeps: the containers found at the start stay in the document and get the
\* title and the cards the new page has at their place; a container the new
\* page has no place for keeps what it held.
Rerendered(chapterElements, doc) ==
    [k \in 1..Len(chapterElements) |->
        IF k <= Len(doc) THEN doc[k] ELSE chapterElements[k]]

\* The cards found earlier in the current chapter, after the page has rendered
\* again.  Rendered in place, a card is the same element with what the new
\* page shows at its place, and one the new page has no place for keeps what
\* it held; rendered anew, the cards found earlier have left the document and
\* all keep what they held.
RerenderedCards(lessonElements, cards, inPlace) ==
    [k \in 1..Len(lessonElements) |->
        IF inPlace /\ k <= Len(cards) THEN cards[k] ELSE lessonElements[k]]

\* ------------------------------------------------------------------ lesson-scraper.js

\* A variant of the filter that keeps the last entry of each url.
RECURSIVE SourcesKeepingLast(_)
SourcesKeepingLast(sources) ==
    IF sources = <<>> THEN <<>>
    ELSE IF \E i \in 2..Len(sources) : sources[i].url = Head(sources).url
         THEN SourcesKeepingLast(Tail(sources))
         ELSE <<Head(sources)>> \o SourcesKeepingLast(Tail(sources))
removeDuplicateSourcesKeepingLast(sources) == SourcesKeepingLast(sources)

\* sources.filter(source => ...) over the entries that are left, with the
\* urls seen so far
RECURSIVE FilterSources(_, _)
FilterSources(sources, seen) ==
    IF sources = <<>> THEN <<>>
    ELSE IF Head(sources).url \in seen
         THEN FilterSources(Tail(sources), seen)
         ELSE <<Head(sources)>>
              \o FilterSources(Tail(sources), seen \cup {Head(sources).url})

removeDuplicateSources(sources) == FilterSources(sources, {})

\* files.filter(file => ...) over the entries that are left
RECURSIVE FilterFiles(_, _)
FilterFiles(files, seen) ==
    IF files = <<>> THEN <<>>
    ELSE IF Head(files).url \in seen
         THEN FilterFiles(Tail(files), seen)
         ELSE <<Head(files)>>
              \o FilterFiles(Tail(files), seen \cup {Head(files).url})

removeDuplicateFiles(files) == FilterFiles(files, {})

\* ---- scrapeLessonContent

ErrNavigationTimeout == <<"Navigation timeout: document still loading">>
ErrCrossOrigin == <<"Cross-origin iframe - content extraction requires allFrames injection">>
Str_QuizNotImplemented == <<"Quiz content extraction not implemented">>

\* A JavaScript object held in a property that may also hold null.
Obj(fields) == <<"object", fields>>

\* sanitizeText(text) of utils.js, for the texts of the model (no line breaks)
sanitizeText(text) == IF text = Null \/ text = <<>> THEN <<>> ELSE Trim(CollapseWs(text))

\* A lesson page: lp.readyState is document.readyState, lp.iframe says whether
\* the page has the lesson iframe and of which origin, lp.iframeText and
\* lp.mainText are the text of the content element in the iframe document and
\* in the main page (Null when there is none), lp.sources and lp.links are what
\* the video and download extractors find, lp.broken says that querySelector
\* and querySelectorAll throw on the page.

\* One poll of waitForElement(SELECTORS.iframe): whether a selector matches.
\* What a query throws is caught and the next selector is tried.
IframeFound(lp) == ~lp.broken /\ lp.iframe # "none"

\* extractTextContent() from the end of its wait for the iframe: iframe says
\* whether the wait found the element, lp is the page as it is then.
\* findElement catches what a query throws and answers as if nothing matched,
\* so that the catch of the function is not reached.
TextContentAfterWait(iframe, lp) ==
    LET textData == [type |-> "text", html |-> Null, plainText |-> Null]
        inIframe ==
            IF ~iframe THEN textData
            ELSE IF lp.iframe = "same-origin" /\ lp.iframeText # Null
            THEN [textData EXCEPT !.html = lp.iframeText, !.plainText = lp.iframeText]
            ELSE IF lp.iframe = "cross-origin"
            THEN [error |-> ErrCrossOrigin] @@ textData
            ELSE textData
        withMain ==
            IF ~lp.broken /\ (inIframe.html = Null \/ inIframe.html = <<>>)
               /\ lp.mainText # Null
            THEN [html |-> lp.mainText, plainText |-> lp.mainText, source |-> "main_page"]
                 @@ inIframe
            ELSE inIframe
    IN  IF withMain.plainText # Null /\ withMain.plainText # <<>>
        THEN [withMain EXCEPT !.plainText = sanitizeText(withMain.plainText)]
        ELSE withMain

\* extractVideoContent() on a page with no video element and no embedded video
\* frame: lp.sources are the entries pushed for the elements with a
\* data-video-url attribute, in document order.  The strategies after the
\* first call document.querySelector themselves: what it throws reaches the
\* catch of the function, with nothing pushed yet.
extractVideoContent(lp) ==
    LET videoData == [type |-> "video", sources |-> <<>>, provider |-> Null,
                      embedUrl |-> Null, videoId |-> Null, thumbnail |-> Null]
    IN  IF lp.broken THEN [error |-> ErrDom] @@ videoData
        ELSE [videoData EXCEPT !.sources = removeDuplicateSources(lp.sources)]

\* extractDownloadContent(): lp.links are the entries pushed for the download
\* links of the page whose href starts with http, in document order.
\* findElements catches what a query throws and returns no element.
extractDownloadContent(lp) ==
    LET downloadData == [type |-> "download", files |-> <<>>]
    IN  IF lp.broken THEN downloadData
        ELSE [downloadData EXCEPT !.files = removeDuplicateFiles(lp.links)]

extractQuizContent(lp) ==
    [type |-> "quiz", message |-> Str_QuizNotImplemented, pageUrl |-> "lesson-url"]

\* the extractors the switch on lessonData.type calls
ExtractorsFor(type) ==
    IF type = Str_video THEN {"extractVideoContent"}
    ELSE IF type = Str_text THEN {"extractTextContent"}
    ELSE IF type = Str_download THEN {"extractDownloadContent"}
    ELSE IF type = Str_quiz THEN {"extractQuizContent"}
    ELSE {"extractTextContent", "extractVideoContent", "extractDownloadContent"}

\* new Date().toISOString() at the time of the call
ScrapedAt == "scraped-at"

\* A variant of the catch of scrapeLessonContent that throws the error again.
ScrapeFailureRethrown(lessonData, message) ==
    [settled |-> "rejected", message |-> message, invoked |-> {}]

\* the catch of scrapeLessonContent: the lesson data with content null and the
\* message
ScrapeFailure(lessonData, message) ==
    [settled |-> "fulfilled",
     value |-> [scrapedAt |-> ScrapedAt, content |-> Null, error |-> message]
               @@ lessonData,
     invoked |-> {}]

\* ------------------------------------------------------------------ helper calls

\* The helpers are pure functions of their arguments: each is studied in a run
\* that starts with a call drawn from the sets below and ends when the call
\* has returned.

\* all sequences over S of length at most n
SeqsUpTo(S, n) == UNION {[1..k -> S] : k \in 0..n}

\* bounds of the arguments
MaxSelectors == 3
MaxTitleLen == 4
MaxShownLen == 2
MaxEntries == 4
\* how often the page renders again during one call of buildCourseMap
MaxRenders == 1

Selectors == {"s1", "s2", "s3"}
Elements == {<<"e1">>, <<"e2">>}
MatchLists == {<<>>, << <<"e1">> >>, << <<"e2">> >>, << <<"e1">>, <<"e2">> >>}
QueryResults ==
    {QueryResult(TRUE, <<>>)} \cup {QueryResult(FALSE, m) : m \in MatchLists}
Contexts == [Selectors -> QueryResults]
SelectorArrays ==
    {[isArray |-> TRUE, value |-> list] : list \in SeqsUpTo(Selectors, MaxSelectors)}
    \cup {[isArray |-> FALSE, selector |-> sel] : sel \in Selectors}

TitleChars == {"a", "A", "b", " ", "\t", "\r"}
Titles == SeqsUpTo(TitleChars, MaxTitleLen)
ShortTitles == SeqsUpTo(TitleChars, MaxShownLen)

\* lesson cards with no icon element and a type attribute of their own
CardPlainVideo == Card(<<"C","l","i","p">>, NoIcon, <<"<","d","i","v"," ","d","a","t","a","-","t","y","p","e","=","\"","v","i","d","e","o","\"",">">>, <<"C","l","i","p">>, <<>>, <<>>)
CardPlainText == Card(<<"N","o","t","e">>, NoIcon, <<"<","d","i","v"," ","t","y","p","e","=","\"","t","e","x","t","\"",">">>, <<"N","o","t","e">>, <<>>, <<>>)
\* a lesson card whose icon names no type and that has a video type attribute
CardIconVideoAttr == Card(<<"C","l","i","p">>, IconPlain, <<"<","d","i","v"," ","t","y","p","e","=","\"","v","i","d","e","o","\"",">">>, <<"C","l","i","p">>, <<>>, <<>>)
TypedCards == {CardIntro, CardSetup, CardIntroLower, CardEmpty, CardUntitled,
               CardFaq, CardSvg, CardPlainVideo, CardPlainText, CardIconVideoAttr}

\* source or file entries: a url and what else tells two entries apart
Entries == {[url |-> u, type |-> t] : u \in {"u1", "u2"}, t \in {"embed", "aws-s3"}}
EntryLists == SeqsUpTo(Entries, MaxEntries)

\* lesson pages scrapeLessonContent may run on
SourceA == [url |-> "u1", type |-> "data-attribute"]
SourceB == [url |-> "u2", type |-> "data-attribute"]
\* two links to the same file and a link to another one
FileA == [url |-> "u1", filename |-> "f1", fileType |-> "pdf",
          linkText |-> <<"G","e","t">>, isAwsS3 |-> FALSE]
FileB == [url |-> "u1", filename |-> "f1", fileType |-> "pdf",
          linkText |-> <<>>, isAwsS3 |-> FALSE]
FileC == [url |-> "u2", filename |-> "f2", fileType |-> "zip",
          linkText |-> <<"A","l","l">>, isAwsS3 |-> TRUE]
LessonPages ==
    [readyState : {"complete", "loading"},
     iframe : {"none", "same-origin", "cross-origin"},
     iframeText : {Null, <<"i">>},
     mainText : {Null, <<" ","m"," "," ","x">>},
     sources : {<<>>, <<SourceA, SourceB, SourceA>>},
     links : {<<>>, <<FileA, FileB, FileC>>},
     broken : BOOLEAN]

Str_pdf == <<"p","d","f">>

\* lesson data as buildCourseMap pushes it, entries pushed after an error
\* included, and one of a type the switch does not name
LessonDatas ==
    {[title |-> <<"L">>, type |-> t, url |-> Null, chapterIndex |-> 0, lessonIndex |-> 0] :
        t \in {Str_video, Str_text, Str_download, Str_quiz, Str_unknown, Str_pdf}}
    \cup {MapLessonAfterError(0, 0, ErrTypeError)}

HelperCalls ==
    {[fn |-> "findElement", selectors |-> sa, context |-> cx] :
        sa \in SelectorArrays, cx \in Contexts}
    \cup {[fn |-> "findElements", selectors |-> sa, context |-> cx] :
        sa \in SelectorArrays, cx \in Contexts}
    \cup {[fn |-> "normalizeText", text |-> t] : t \in Titles}
    \cup {[fn |-> "waitForLessonLoaded", shown |-> sh, expectedTitle |-> t] :
        sh \in ShortTitles \cup {NoEl}, t \in ShortTitles}
    \cup {[fn |-> "detectLessonType", card |-> cd] : cd \in TypedCards}
    \cup {[fn |-> "removeDuplicateSources", sources |-> l] : l \in EntryLists}
    \cup {[fn |-> "removeDuplicateFiles", files |-> l] : l \in EntryLists}
    \cup {[fn |-> "buildCourseMap", page |-> n] : n \in PageNames}

InitHelpers ==
    /\ Idle
    /\ args \in HelperCalls
    /\ page = IF args.fn = "buildCourseMap" THEN args.page ELSE "none"
    /\ ret = NotReturned
    /\ proc = NoProc

Pending(fn) == args.fn = fn /\ ~ret.done

CallFindElement ==
    /\ Pending("findElement")
    /\ ret' = ReturnedValue(findElement(args.selectors, args.context))
    /\ UNCHANGED <<page, pageVars, popupVars, inbox, cancelInFlight,
                   cancelRequested, runVars, args, proc>>

CallFindElements ==
    /\ Pending("findElements")
    /\ ret' = ReturnedValue(findElements(args.selectors, args.context))
    /\ UNCHANGED <<page, pageVars, popupVars, inbox, cancelInFlight,
                   cancelRequested, runVars, args, proc>>

CallNormalizeText ==
    /\ Pending("normalizeText")
    /\ ret' = ReturnedValue(normalizeText(args.text))
    /\ UNCHANGED <<page, pageVars, popupVars, inbox, cancelInFlight,
                   cancelRequested, runVars, args, proc>>

\* one poll of waitForLessonLoaded: whether the title element found by the
\* poll makes it return true
CallTitleMatches ==
    /\ Pending("waitForLessonLoaded")
    /\ ret' = ReturnedValue(TitleMatches(args.shown, args.expectedTitle))
    /\ UNCHANGED <<page, pageVars, popupVars, inbox, cancelInFlight,
                   cancelRequested, runVars, args, proc>>

CallDetectLessonType ==
    /\ Pending("detectLessonType")
    /\ ret' = ReturnedValue(detectLessonType(args.card))
    /\ UNCHANGED <<page, pageVars, popupVars, inbox, cancelInFlight,
                   cancelRequested, runVars, args, proc>>

CallRemoveDuplicateSources ==
    /\ Pending("removeDuplicateSources")
    /\ ret' = ReturnedValue(removeDuplicateSources(args.sources))
    /\ UNCHANGED <<page, pageVars, popupVars, inbox, cancelInFlight,
                   cancelRequested, runVars, args, proc>>

CallRemoveDuplicateFiles ==
    /\ Pending("removeDuplicateFiles")
    /\ ret' = ReturnedValue(removeDuplicateFiles(args.files))
    /\ UNCHANGED <<page, pageVars, popupVars, inbox, cancelInFlight,
                   cancelRequested, runVars, args, proc>>

\* buildCourseMap is called: it throws when the page has no chapter container,
\* else it runs to its first await, or to its end.
BuildCourseMapStart ==
    /\ Pending("buildCourseMap")
    /\ proc = NoProc
    /\ LET chapterElements == Document(page) IN
       IF Len(chapterElements) = 0
       THEN /\ ret' = ReturnedValue([threw |-> TRUE, message |-> ErrNoChaptersOnMap])
            /\ proc' = proc
       ELSE LET st == MapRun(MapLocals(chapterElements)) IN
            /\ proc' = st
            /\ ret' = IF st.pc = "returned" THEN ReturnedValue(CourseMap(st)) ELSE ret
    /\ UNCHANGED <<page, pageVars, popupVars, inbox, cancelInFlight,
                   cancelRequested, runVars, args>>

\* sleep(1000) of captureLessonUrlByClick is over
BuildCourseMapWake ==
    /\ Pending("buildCourseMap")
    /\ proc.pc = "sleep"
    /\ LET st == MapWake(proc) IN
       /\ proc' = st
       /\ ret' = IF st.pc = "returned" THEN ReturnedValue(CourseMap(st)) ELSE ret
    /\ UNCHANGED <<page, pageVars, popupVars, inbox, cancelInFlight,
                   cancelRequested, runVars, args>>

\* the page renders again while buildCourseMap sleeps
PageRerenders ==
    /\ Pending("buildCourseMap")
    /\ proc.pc = "sleep"
    /\ proc.renders < MaxRenders
    /\ \E name \in PageNames \ {page}, inPlace \in BOOLEAN :
         LET doc == Document(name)
             cards == IF proc.chapterIndex < Len(doc)
                      THEN doc[proc.chapterIndex + 1].cards ELSE <<>>
         IN  /\ page' = name
             /\ proc' = [proc EXCEPT
                           !.renders = @ + 1,
                           !.chapterElements = Rerendered(@, doc),
                           !.lessonElements = RerenderedCards(@, cards, inPlace)]
    /\ UNCHANGED <<pageVars, popupVars, inbox, cancelInFlight,
                   cancelRequested, runVars, args, ret>>

NextHelpers ==
    \/ CallFindElement
    \/ CallFindElements
    \/ CallNormalizeText
    \/ CallTitleMatches
    \/ CallDetectLessonType
    \/ CallRemoveDuplicateSources
    \/ CallRemoveDuplicateFiles
    \/ BuildCourseMapStart
    \/ BuildCourseMapWake
    \/ PageRerenders

SpecHelpers == InitHelpers /\ [][NextHelpers]_vars

\* ------------------------------------------------------------------ scrapeLessonContent

\* One call of scrapeLessonContent(lessonData), step by step: between two of
\* its awaits the lesson page goes on loading and rendering, and what the call
\* reads it reads from the page as it is at that time.  proc.page is the live
\* page, proc.pc the await the call is at:
\*   "called"  the call has not started
\*   "nav"     the poll of waitForNavigation while readyState is 'loading'
\*   "settle"  sleep(1000) of waitForNavigation and sleep(2000) of the call
\*   "iframe"  the poll of waitForElement(SELECTORS.iframe, 10000)
\*   "threw"   waitForNavigation threw and the catch returned
\*   "returned"
\* proc.video and proc.downloads hold what extractAllContent got from the
\* extractors that have returned while extractTextContent waits.
\* Time is not counted: a timeout may strike at any poll.

ScrapeProc(lp) == [pc |-> "called", page |-> lp, video |-> Null, downloads |-> Null]

InitScrape ==
    /\ Idle
    /\ page = "none"
    /\ args \in {[fn |-> "scrapeLessonContent", lessonData |-> d] : d \in LessonDatas}
    /\ ret = NotReturned
    /\ proc \in {ScrapeProc(lp) : lp \in LessonPages}

ScrapeFrame ==
    UNCHANGED <<page, pageVars, popupVars, inbox, cancelInFlight,
                cancelRequested, runVars, args>>

\* return content of the try block
ScrapeSuccess(lessonData, content) ==
    [settled |-> "fulfilled",
     value |-> [scrapedAt |-> ScrapedAt, content |-> Obj(content), error |-> Null]
               @@ lessonData,
     invoked |-> ExtractorsFor(lessonData.type)]

\* the call runs to its first await: waitForNavigation tests readyState once
ScrapeStart ==
    /\ Pending("scrapeLessonContent")
    /\ proc.pc = "called"
    /\ proc' = [proc EXCEPT
                  !.pc = IF proc.page.readyState = "loading" THEN "nav" ELSE "settle"]
    /\ ret' = ret
    /\ ScrapeFrame

\* a poll of waitForNavigation finds that the document has left 'loading'
ScrapeNavDone ==
    /\ Pending("scrapeLessonContent")
    /\ proc.pc = "nav"
    /\ proc.page.readyState # "loading"
    /\ proc' = [proc EXCEPT !.pc = "settle"]
    /\ ret' = ret
    /\ ScrapeFrame

\* a poll of waitForNavigation after 15000 ms finds the document still
\* loading: it throws, and the catch of scrapeLessonContent returns
ScrapeNavTimeout ==
    /\ Pending("scrapeLessonContent")
    /\ proc.pc = "nav"
    /\ proc.page.readyState = "loading"
    /\ proc' = [proc EXCEPT !.pc = "threw"]
    /\ ret' = ReturnedValue(ScrapeFailure(args.lessonData, ErrNavigationTimeout))
    /\ ScrapeFrame

\* the two sleeps are over: the switch on lessonData.type.  The video, download
\* and quiz extractors do not wait; extractTextContent polls for the iframe,
\* and goes on at once when the first poll finds it.
ScrapeDispatch ==
    /\ Pending("scrapeLessonContent")
    /\ proc.pc = "settle"
    /\ LET lessonData == args.lessonData
           lp == proc.page
           type == lessonData.type
       IN  IF type = Str_video
           THEN /\ ret' = ReturnedValue(ScrapeSuccess(lessonData, extractVideoContent(lp)))
                /\ proc' = [proc EXCEPT !.pc = "returned"]
           ELSE IF type = Str_download
           THEN /\ ret' = ReturnedValue(ScrapeSuccess(lessonData, extractDownloadContent(lp)))
                /\ proc' = [proc EXCEPT !.pc = "returned"]
           ELSE IF type = Str_quiz
           THEN /\ ret' = ReturnedValue(ScrapeSuccess(lessonData, extractQuizContent(lp)))
                /\ proc' = [proc EXCEPT !.pc = "returned"]
           ELSE IF type = Str_text
           THEN IF IframeFound(lp)
                THEN /\ ret' = ReturnedValue(ScrapeSuccess(lessonData,
                                                TextContentAfterWait(TRUE, lp)))
                     /\ proc' = [proc EXCEPT !.pc = "returned"]
                ELSE /\ ret' = ret
                     /\ proc' = [proc EXCEPT !.pc = "iframe"]
           ELSE \* extractAllContent: the three extractors are called in turn
                LET videoData == extractVideoContent(lp)
                    downloadData == extractDownloadContent(lp)
                IN  IF IframeFound(lp)
                    THEN /\ ret' = ReturnedValue(ScrapeSuccess(lessonData,
                                       [text |-> TextContentAfterWait(TRUE, lp),
                                        video |-> videoData,
                                        downloads |-> downloadData]))
                         /\ proc' = [proc EXCEPT !.pc = "returned",
                                                 !.video = videoData,
                                                 !.downloads = downloadData]
                    ELSE /\ ret' = ret
                         /\ proc' = [proc EXCEPT !.pc = "iframe",
                                                 !.video = videoData,
                                                 !.downloads = downloadData]
    /\ ScrapeFrame

\* extractTextContent goes on after its wait, and scrapeLessonContent returns
ScrapeTextReturns(iframe) ==
    LET lessonData == args.lessonData
        text == TextContentAfterWait(iframe, proc.page)
    IN  /\ ret' = ReturnedValue(ScrapeSuccess(lessonData,
                     IF lessonData.type = Str_text THEN text
                     ELSE [text |-> text,
                           video |-> proc.video,
                           downloads |-> proc.downloads]))
        /\ proc' = [proc EXCEPT !.pc = "returned"]

\* a later poll of waitForElement finds the iframe
ScrapeIframeFound ==
    /\ Pending("scrapeLessonContent")
    /\ proc.pc = "iframe"
    /\ IframeFound(proc.page)
    /\ ScrapeTextReturns(TRUE)
    /\ ScrapeFrame

\* waitForElement gives up after 10000 ms, its last poll having found no
\* iframe: it throws, the catch on the call turns that into null
ScrapeIframeTimeout ==
    /\ Pending("scrapeLessonContent")
    /\ proc.pc = "iframe"
    /\ ScrapeTextReturns(FALSE)
    /\ ScrapeFrame

\* the lesson page loads and renders while the call waits: a document that has
\* left 'loading' does not go back to it, and whether the queries throw does
\* not depend on what the page shows
LessonPageChanges ==
    /\ Pending("scrapeLessonContent")
    /\ proc.pc \in {"nav", "settle", "iframe"}
    /\ \E lp \in LessonPages \ {proc.page} :
         /\ lp.broken = proc.page.broken
         /\ proc.page.readyState # "loading" => lp.readyState # "loading"
         /\ proc' = [proc EXCEPT !.page = lp]
    /\ ret' = ret
    /\ ScrapeFrame

NextScrape ==
    \/ ScrapeStart
    \/ ScrapeNavDone
    \/ ScrapeNavTimeout
    \/ ScrapeDispatch
    \/ ScrapeIframeFound
    \/ ScrapeIframeTimeout
    \/ LessonPageChanges

SpecScrape == InitScrape /\ [][NextScrape]_vars

\* ------------------------------------------------------------------ utils.js

\* The two helpers of utils.js that await between their steps are studied in
\* runs of their own: a run starts with a call drawn from UtilCalls and follows
\* the call from await to await until it resolves or rejects.

Resolved(value) == [kind |-> "resolved", value |-> value]
Rejected(name, message) == [kind |-> "rejected", name |-> name, message |-> message]

\* const { maxRetries = 3, backoffMs = 1000, backoffMultiplier = 2,
\*         onRetry = null } = options
DefaultMaxRetries == 3
DefaultBackoffMs == 1000
DefaultBackoffMultiplier == 2
OptionOr(options, key, default) ==
    IF key \in DOMAIN options THEN options[key] ELSE default

\* Math.pow on naturals
RECURSIVE Pow(_, _)
Pow(base, exponent) ==
    IF exponent = 0 THEN 1 ELSE base * Pow(base, exponent - 1)

\* A variant of the loop test that allows one attempt more.
MayAttemptOnceMore(attempt, maxRetries) == attempt <= maxRetries
\* the loop test of retryOperation
MayAttempt(attempt, maxRetries) == attempt < maxRetries

\* A variant of the backoff test that also backs off after the last attempt.
ShouldBackoffAlways(attempt, maxRetries) == TRUE
\* if (attempt < maxRetries - 1); maxRetries - 1 is -1 when maxRetries is 0
ShouldBackoff(attempt, maxRetries) == attempt + 1 < maxRetries

\* const delay = backoffMs * Math.pow(backoffMultiplier, attempt)
BackoffDelay(backoffMs, backoffMultiplier, attempt) ==
    backoffMs * Pow(backoffMultiplier, attempt)

\* lastError before any attempt has failed
Undefined == <<"undefined">>
ErrReadMessageOfUndefined == <<"Cannot read properties of undefined (reading 'message')">>

\* throw new Error(`Operation failed after ${maxRetries} attempts:
\* ${lastError.message}`); reading message of undefined raises a TypeError
RetryFailure(maxRetries, lastError) ==
    IF lastError = Undefined
    THEN Rejected("TypeError", ErrReadMessageOfUndefined)
    ELSE Rejected("Error", <<"Operation failed after ">> \o NumToString(maxRetries)
                           \o <<" attempts: ">> \o lastError)

\* what one call of operation() settles to: a value, or an error with a message
OperationResults ==
    {[ok |-> TRUE, value |-> <<"v1">>],
     [ok |-> FALSE, value |-> <<"boom">>],
     [ok |-> FALSE, value |-> <<"bang">>]}

\* the locals of retryOperation, with the attempts, the onRetry calls and the
\* sleeps it has made so far
RetryLocals ==
    [pc |-> "loop", attempt |-> 0, lastError |-> Undefined,
     calls |-> <<>>, onRetryCalls |-> <<>>, waits |-> <<>>]

MaxRetries(options) == OptionOr(options, "maxRetries", DefaultMaxRetries)

\* One pass of the loop body: operation() is awaited.  Its value is returned;
\* its error is kept and, unless the attempt was the last, onRetry is called
\* and the function sleeps for the backoff delay.
RetryAttempt ==
    /\ Pending("retryOperation")
    /\ proc.pc = "loop"
    /\ MayAttempt(proc.attempt, MaxRetries(args.options))
    /\ \E result \in OperationResults :
         IF result.ok
         THEN /\ ret' = ReturnedValue(Resolved(result.value))
              /\ proc' = [proc EXCEPT !.pc = "done",
                                      !.calls = Append(@, result)]
         ELSE /\ UNCHANGED ret
              /\ IF ShouldBackoff(proc.attempt, MaxRetries(args.options))
                 THEN proc' = [proc EXCEPT
                        !.pc = "sleep",
                        !.lastError = result.value,
                        !.calls = Append(@, result),
                        !.onRetryCalls =
                            IF "onRetry" \in DOMAIN args.options
                            THEN Append(@, [attempt |-> proc.attempt,
                                            error |-> result.value])
                            ELSE @,
                        !.waits = Append(@, BackoffDelay(
                            OptionOr(args.options, "backoffMs", DefaultBackoffMs),
                            OptionOr(args.options, "backoffMultiplier",
                                     DefaultBackoffMultiplier),
                            proc.attempt))]
                 ELSE proc' = [proc EXCEPT
                        !.attempt = @ + 1,
                        !.lastError = result.value,
                        !.calls = Append(@, result)]
    /\ UNCHANGED <<page, pageVars, popupVars, inbox, cancelInFlight,
                   cancelRequested, runVars, args>>

\* the sleep is over: attempt++
RetryWake ==
    /\ Pending("retryOperation")
    /\ proc.pc = "sleep"
    /\ proc' = [proc EXCEPT !.pc = "loop", !.attempt = @ + 1]
    /\ UNCHANGED <<page, pageVars, popupVars, inbox, cancelInFlight,
                   cancelRequested, runVars, args, ret>>

\* the loop is left without a return: the function throws
RetryExhausted ==
    /\ Pending("retryOperation")
    /\ proc.pc = "loop"
    /\ ~MayAttempt(proc.attempt, MaxRetries(args.options))
    /\ ret' = ReturnedValue(RetryFailure(MaxRetries(args.options), proc.lastError))
    /\ proc' = [proc EXCEPT !.pc = "done"]
    /\ UNCHANGED <<page, pageVars, popupVars, inbox, cancelInFlight,
                   cancelRequested, runVars, args>>

\* waitForElement(selector, timeout = 10000, context = document), sleep(100)
DefaultWaitTimeoutMs == 10000
WaitSleepMs == 100

\* selectors.join(', ')
RECURSIVE JoinComma(_)
JoinComma(list) ==
    IF list = <<>> THEN <<>>
    ELSE IF Len(list) = 1 THEN list
    ELSE <<Head(list), ", ">> \o JoinComma(Tail(list))

\* the for loop of one poll of waitForElement over the selectors that are left
RECURSIVE WaitFirstMatch(_, _)
WaitFirstMatch(selectors, context) ==
    IF selectors = <<>> THEN NoEl
    ELSE IF ~context[Head(selectors)].throws
            /\ Len(context[Head(selectors)].matches) > 0
         THEN Head(context[Head(selectors)].matches)
         ELSE WaitFirstMatch(Tail(selectors), context)

\* A variant of the end of waitForElement that gives up silently.
WaitGivesUpWithNull(timeout, selectors) == Resolved(NoEl)
\* throw new Error(`Element not found after ${timeout}ms: ${selectorStr}`)
WaitFailure(timeout, selectors) ==
    Rejected("Error", <<"Element not found after ">> \o NumToString(timeout)
                      \o <<"ms: ">> \o JoinComma(selectors))

\* the context before the awaited elements are attached: a selector that can
\* be parsed matches nothing yet
NotYet(context) ==
    [sel \in DOMAIN context |->
        IF context[sel].throws THEN context[sel] ELSE QueryResult(FALSE, <<>>)]

WaitTimeout == OptionOr(args, "timeout", DefaultWaitTimeoutMs)

\* the locals of waitForElement: Date.now() - startTime as the loop last read
\* it, the number of polls made and the context as the last poll saw it
WaitLocals == [pc |-> "poll", elapsed |-> 0, polls |-> 0, seen |-> <<>>]

\* One pass of the while loop, made while the clock reads less than the
\* timeout: the selectors are tried in order against the context as it is now;
\* the first element found is returned, otherwise the function sleeps 100 ms
\* and reads the clock again.
WaitPoll ==
    /\ Pending("waitForElement")
    /\ proc.pc = "poll"
    /\ proc.elapsed < WaitTimeout
    /\ \E now \in {args.context, NotYet(args.context)} :
         LET element == WaitFirstMatch(AsArray(args.selector), now)
         IN  IF element # NoEl
             THEN /\ ret' = ReturnedValue(Resolved(element))
                  /\ proc' = [proc EXCEPT !.pc = "done", !.polls = @ + 1,
                                          !.seen = now]
             ELSE /\ UNCHANGED ret
                  /\ \E slept \in SleepTimes(WaitSleepMs) :
                       proc' = [proc EXCEPT !.elapsed = @ + slept,
                                            !.polls = @ + 1, !.seen = now]
    /\ UNCHANGED <<page, pageVars, popupVars, inbox, cancelInFlight,
                   cancelRequested, runVars, args>>

\* the clock reads the timeout or more: the function throws
WaitExpired ==
    /\ Pending("waitForElement")
    /\ proc.pc = "poll"
    /\ ~(proc.elapsed < WaitTimeout)
    /\ ret' = ReturnedValue(WaitFailure(WaitTimeout, AsArray(args.selector)))
    /\ proc' = [proc EXCEPT !.pc = "done"]
    /\ UNCHANGED <<page, pageVars, popupVars, inbox, cancelInFlight,
                   cancelRequested, runVars, args>>

\* bounds of the calls
MaxAttempts == 4
MaxWaitSelectors == 2

BackoffValues == {100, 1000}
MultiplierValues == {1, 2, 3}
RetryOptions ==
    {<<>>}
    \cup {[maxRetries |-> m] : m \in 0..MaxAttempts}
    \cup {[onRetry |-> "callback"]}
    \cup {[maxRetries |-> m, backoffMs |-> b, backoffMultiplier |-> x] :
            m \in 0..MaxAttempts, b \in BackoffValues, x \in MultiplierValues}
    \cup {[maxRetries |-> m, backoffMs |-> b, backoffMultiplier |-> x,
           onRetry |-> "callback"] :
            m \in 0..MaxAttempts, b \in BackoffValues, x \in MultiplierValues}

WaitSelectorArrays ==
    {[isArray |-> TRUE, value |-> list] : list \in SeqsUpTo(Selectors, MaxWaitSelectors)}
    \cup {[isArray |-> FALSE, selector |-> sel] : sel \in Selectors}
WaitContexts == {cx \in Contexts : cx["s3"] = QueryResult(FALSE, <<>>)}
WaitTimeouts == {0, 100, 250}

UtilCalls ==
    {[fn |-> "retryOperation", options |-> o] : o \in RetryOptions}
    \cup {[fn |-> "waitForElement", selector |-> sa, timeout |-> t, context |-> cx] :
            sa \in WaitSelectorArrays, t \in WaitTimeouts, cx \in WaitContexts}
    \cup {[fn |-> "waitForElement", selector |-> [isArray |-> FALSE, selector |-> "s1"],
           context |-> cx] :
            cx \in {c \in WaitContexts : c["s2"] = QueryResult(FALSE, <<>>)}}

InitUtils ==
    /\ page = "none"
    /\ Idle
    /\ args \in UtilCalls
    /\ ret = NotReturned
    /\ proc = IF args.fn = "retryOperation" THEN RetryLocals ELSE WaitLocals

NextUtils ==
    \/ RetryAttempt
    \/ RetryWake
    \/ RetryExhausted
    \/ WaitPoll
    \/ WaitExpired

SpecUtils == InitUtils /\ [][NextUtils]_vars

\* ------------------------------------------------------------------ properties

\* the ways a lesson's turn ends in failure
FailureKinds == {"notfound", "threw", "timeout", "noeditor"}

ContentNull(lesson) ==
    /\ lesson.content = Null
    /\ lesson.textContent = Null
    /\ lesson.plainTextContent = Null

\* a lesson as the plan holds it before its turn
Untouched(lesson) == ContentNull(lesson) /\ lesson.error = Absent

\* the plan as it is built from the page
Plan == PlanLessons(BuildChapters(Document(page)))

\* the plan has been built by the current run
PlanBuilt == spc \notin {"none", "failed"}

Returned == outcome = "returned"

\* the flag was set by the Cancel handler while a lesson's turn was under way
SetMidLesson == flagSetAt.at \in {"scroll", "wait", "loaded"}

LastEvent == events[Len(events)]

\* C1: a lesson whose card is not located, whose load wait times out, whose
\* extraction returns nothing (no editor, or a frame without an accessible
\* document) or whose processing throws ends with error set and content,
\* textContent and plainTextContent null; the run does not fail because of it;
\* turns are taken in plan order, so the lesson after a failed one is processed
\* next, every lesson of a run that is not cancelled gets its turn, and the run
\* returns the chapter tree.
C1_LessonFailureIsRecordedAndRunContinues ==
    /\ LET lessons == PlanLessons(chapters)
       IN  \A i \in 1..Len(turns) :
             /\ lessons[i] = turns[i].lesson
             /\ turns[i].how \in FailureKinds =>
                   /\ lessons[i].error # Absent
                   /\ ContentNull(lessons[i])
    /\ turns # <<>> => outcome # "failed"
    /\ (Returned /\ ~finalData.cancelled) => Len(turns) = totalLessons
    /\ Returned => finalData.chapters = chapters

\* a run that was not cancelled returned after lessons failed in each of the
\* four ways, the first lesson being one of them
C1_Witness ==
    /\ Returned /\ ~finalData.cancelled
    /\ \A kind \in FailureKinds : \E i \in 1..Len(turns) : turns[i].how = kind
    /\ turns[1].how \in FailureKinds
    /\ Len(turns) = totalLessons

\* C2: when the check before lesson k+1 sees the flag, the function returns a
\* document with cancelled = true in which the first k lessons have the results
\* their turns gave them, the lessons from k+1 on are as the plan built them
\* (content fields null, no error), no click was made for a lesson after the
\* k-th, and, when the first k lessons were all extracted, the cancelled message
\* carries completed = k.
C2_CancelledDocumentKeepsEarlierResults ==
    (Returned /\ finalData.cancelled) =>
        LET k == Len(turns)
            lessons == PlanLessons(finalData.chapters)
        IN  /\ processedLessons = k
            /\ k < Len(lessons)
            /\ \A i \in 1..k : lessons[i] = turns[i].lesson
            /\ \A i \in (k + 1)..Len(lessons) :
                  Untouched(lessons[i]) /\ lessons[i] = Plan[i]
            /\ \A j \in 1..Len(clicks) : clicks[j].lesson <= k
            /\ (\A i \in 1..k : turns[i].how = "extracted") =>
                  /\ LastEvent.type = "tcs-cancelled"
                  /\ LastEvent.completed = k
                  /\ LastEvent.totalLessons = Len(lessons)

\* cancelled before lesson 3 of 5, after two extracted lessons: completed = 2
C2_Witness ==
    /\ page = "five"
    /\ Returned /\ finalData.cancelled
    /\ Len(turns) = 2
    /\ \A i \in 1..2 : turns[i].how = "extracted" /\ turns[i].lesson.content # Null
    /\ LastEvent.type = "tcs-cancelled"
    /\ LastEvent.completed = 2 /\ LastEvent.totalLessons = 5

\* C3: the flag is read only at the top of an iteration.  When the Cancel
\* handler sets it while a lesson's turn is under way (after the card was
\* located, around the click, during the load wait or before the extraction), no
\* later lesson is started or clicked, the function does not return before that
\* lesson's turn has ended with its own outcome, and it then stops at the very
\* next check (or ends normally when that lesson was the last).
C3_CancellationIsCheckpointed ==
    SetMidLesson =>
        /\ processedLessons = flagSetAt.turn
        /\ \A j \in 1..Len(clicks) : clicks[j].lesson <= flagSetAt.turn
        /\ Len(turns) \in {flagSetAt.turn - 1, flagSetAt.turn}
        /\ Returned =>
              /\ Len(turns) = flagSetAt.turn
              /\ turns[flagSetAt.turn].how \in FailureKinds \cup {"extracted"}
              /\ turns[flagSetAt.turn].how \in FailureKinds
                    <=> turns[flagSetAt.turn].lesson.error # Absent
              /\ finalData.cancelled <=> flagSetAt.turn < totalLessons

\* the flag was set during the load wait of a lesson, which then was
\* extracted with content, and the run stopped at the following check
C3_Witness ==
    /\ flagSetAt.at = "wait"
    /\ Returned /\ finalData.cancelled
    /\ turns[flagSetAt.turn].how = "extracted"
    /\ turns[flagSetAt.turn].lesson.content # Null

\* C4: the flag belongs to one invocation: a run for which Cancel was not
\* requested since its Start click processes all its lessons and returns
\* cancelled = false, whatever happened in the runs before it on the page.
C4_FlagBelongsToOneInvocation ==
    (rpc = "running" /\ Returned /\ ~cancelRequested) =>
        ~finalData.cancelled /\ Len(turns) = totalLessons

\* C5: the returned cancelled field is true exactly when a check saw the flag
\* (the cancelled message was the last one sent).  A run in which the flag is
\* never set, or is set only once the last lesson has passed its check, returns
\* cancelled = false with every lesson given its turn; a run stopped at a check
\* returns cancelled = true with lessons left.
C5_CancelledIffStoppedAtCheck ==
    Returned =>
        /\ finalData.cancelled <=> LastEvent.type = "tcs-cancelled"
        /\ finalData.cancelled <=> cancelled
        /\ finalData.cancelled => (Len(turns) < totalLessons /\ flagSetAt.at # "never")
        /\ ~finalData.cancelled => Len(turns) = totalLessons
        /\ flagSetAt.at = "never" => ~finalData.cancelled
        /\ (flagSetAt.at \notin {"never", "before"} /\ flagSetAt.turn = totalLessons)
              => ~finalData.cancelled

\* the flag was set while the last lesson's turn was under way: the run ended
\* with cancelled = false although the flag is set
C5_Witness ==
    /\ Returned /\ ~finalData.cancelled
    /\ tcsCancelled
    /\ SetMidLesson /\ flagSetAt.turn = totalLessons
    /\ totalLessons > 1

\* C6: after the i-th lesson's turn has ended, in success or in failure, a
\* progress message with completed = i, the total and that lesson's title has
\* been sent; a run that is not cancelled ends with completed = totalLessons.
C6_ProgressAfterEveryLesson ==
    /\ \A i \in 1..Len(turns) :
          \E j \in 1..Len(events) :
              events[j] = ProgressEvent(i, totalLessons, turns[i].lesson.title)
    /\ (Returned /\ ~finalData.cancelled) => completed = totalLessons

\* C7: a run that builds a plan sends the init message first and only once,
\* then progress messages only, and ends with exactly one terminal message:
\* done when the loops ran to their end, cancelled when a check stopped them;
\* nothing is sent after the terminal message.
C7_EventProtocol ==
    PlanBuilt =>
        /\ events # <<>>
        /\ events[1].type = "tcs-init"
        /\ \A i \in 2..Len(events) : events[i].type # "tcs-init"
        /\ \A i \in 2..(Len(events) - 1) : events[i].type = "tcs-progress"
        /\ Returned =>
              /\ Len(events) >= 2
              /\ LastEvent.type = (IF cancelled THEN "tcs-cancelled" ELSE "tcs-done")
        /\ ~Returned => LastEvent.type \in {"tcs-init", "tcs-progress"}

\* a cancelled run that had sent progress: init, progress, cancelled
C7_Witness ==
    /\ Returned /\ cancelled
    /\ Len(events) >= 3
    /\ events[2].type = "tcs-progress"
    /\ LastEvent.type = "tcs-cancelled"

\* C8: a run fails only when no chapter container is found: then the error is
\* 'No chapters found', there is no plan and no document, no click was made and
\* no message was sent.
C8_OnlyNoChaptersIsFatal ==
    outcome = "failed" =>
        /\ Len(Document(page)) = 0
        /\ fatalMessage = ErrNoChapters
        /\ chapters = <<>> /\ finalData = NoData
        /\ clicks = <<>> /\ events = <<>>

\* C9: every returned document has totalChapters = the number of chapters of
\* the plan and totalLessons = the number of lessons of the plan (one per card
\* of the page), whether the lessons were extracted, failed or never reached.
C9_TotalsReflectPlan ==
    Returned =>
        /\ finalData.totalChapters = Len(finalData.chapters)
        /\ finalData.totalChapters = Len(Document(page))
        /\ finalData.totalLessons = Len(PlanLessons(finalData.chapters))
        /\ finalData.totalLessons = Len(AllCards(Document(page)))

\* a cancelled run over five lessons, one of them failed and some never reached
C9_Witness ==
    /\ Returned /\ finalData.cancelled
    /\ finalData.totalLessons = 5
    /\ Len(turns) \in 1..4
    /\ \E i \in 1..Len(turns) : turns[i].how \in FailureKinds

\* C10: the chapter at position c has chapterIndex = c and the lesson at
\* position l of its cards has chapterIndex = c and lessonIndex = l, both from
\* 0; chapters of 3 and 2 lessons give totalChapters = 2, totalLessons = 5 and
\* the indices (0,0), (0,1), (0,2), (1,0), (1,1) in that order.
C10_IndicesByPosition ==
    PlanBuilt =>
        /\ \A c \in 1..Len(chapters) :
              /\ chapters[c].chapterIndex = c - 1
              /\ \A l \in 1..Len(chapters[c].lessons) :
                    /\ chapters[c].lessons[l].chapterIndex = c - 1
                    /\ chapters[c].lessons[l].lessonIndex = l - 1
        /\ (page = "five" /\ Returned) =>
              /\ finalData.totalChapters = 2
              /\ finalData.totalLessons = 5
              /\ [i \in 1..5 |-> <<PlanLessons(finalData.chapters)[i].chapterIndex,
                                    PlanLessons(finalData.chapters)[i].lessonIndex>>]
                    = << <<0, 0>>, <<0, 1>>, <<0, 2>>, <<1, 0>>, <<1, 1>> >>

\* the page of 3 and 2 lessons was scraped to the end
C10_Witness ==
    /\ page = "five"
    /\ Returned /\ ~finalData.cancelled
    /\ Len(turns) = 5

\* C11: at every moment of a run, and in the returned document, a lesson that
\* carries an error has content, textContent and plainTextContent null: no
\* lesson has both populated content and an error.
C11_ContentAndErrorExclusive ==
    /\ \A c \in 1..Len(chapters) : \A l \in 1..Len(chapters[c].lessons) :
          chapters[c].lessons[l].error # Absent => ContentNull(chapters[c].lessons[l])
    /\ Returned =>
          \A c \in 1..Len(finalData.chapters) :
            \A l \in 1..Len(finalData.chapters[c].lessons) :
              finalData.chapters[c].lessons[l].error # Absent
                => ContentNull(finalData.chapters[c].lessons[l])

\* a returned document holding a lesson with content and no error next to a
\* lesson with an error and no content
C11_Witness ==
    /\ Returned
    /\ \E i \in 1..Len(turns) :
          turns[i].lesson.content # Null /\ turns[i].lesson.error = Absent
    /\ \E i \in 1..Len(turns) :
          turns[i].lesson.error = ErrExtract /\ ContentNull(turns[i].lesson)
    /\ finalData.chapters = chapters

\* C12: a lesson whose turn has ended carries exactly one outcome: non-null
\* content and no error when its extraction went through, an error otherwise;
\* never null content together with no error, also when the editor is empty.
C12_ExactlyOneOutcomePerEndedTurn ==
    LET lessons == PlanLessons(chapters)
    IN  \A i \in 1..Len(turns) :
          /\ turns[i].how = "extracted" =>
                (lessons[i].content # Null /\ lessons[i].error = Absent)
          /\ turns[i].how # "extracted" => lessons[i].error # Absent
          /\ ~(ContentNull(lessons[i]) /\ lessons[i].error = Absent)

\* C13: the loop is sequential and single-pass: at most one lesson is between
\* its locate step and its outcome, the i-th turn is the turn of the i-th
\* lesson of the plan, no lesson gets a second turn, and the clicks (each
\* followed by one load wait) are made for strictly increasing lessons, so a
\* lesson is clicked and waited for at most once and a failed lesson is not
\* retried.
C13_SequentialSinglePass ==
    PlanBuilt =>
        /\ Len(turns) <= totalLessons
        /\ processedLessons \in {Len(turns), Len(turns) + 1}
        /\ processedLessons = Len(turns) + 1 <=> spc \in {"scroll", "wait", "loaded"}
        /\ LET lessons == PlanLessons(chapters)
           IN  /\ \A i \in 1..Len(turns) :
                     /\ turns[i].lesson.chapterIndex = lessons[i].chapterIndex
                     /\ turns[i].lesson.lessonIndex = lessons[i].lessonIndex
               /\ spc \in {"scroll", "wait", "loaded"} =>
                     CurrentLesson = lessons[processedLessons]
        /\ \A j \in 1..Len(clicks) :
              /\ clicks[j].lesson <= processedLessons
              /\ \A k \in (j + 1)..Len(clicks) : clicks[j].lesson < clicks[k].lesson
        /\ spc \in {"wait", "loaded"} =>
              (clicks # <<>> /\ clicks[Len(clicks)].lesson = processedLessons)

\* a run over five lessons ended after three clicks, with a lesson that
\* timed out and lessons that were not located, none of them tried again
C13_Witness ==
    /\ page = "five"
    /\ Returned /\ ~cancelled
    /\ Len(turns) = 5 /\ Len(clicks) = 3
    /\ \E i \in 1..5 : turns[i].how = "timeout"
    /\ \E i \in 1..5 : turns[i].how = "notfound"

\* C14: once the plan is built, a step of the run changes nothing in the tree
\* but the content, textContent, plainTextContent and error of the lesson whose
\* turn it is: chapter titles and order, every lesson's title, type,
\* chapterIndex and lessonIndex, and every other lesson stay as they were.
C14_OnlyContentFieldsChange ==
    [][(PlanBuilt /\ rpc # "inject") =>
         /\ Len(chapters') = Len(chapters)
         /\ \A c \in 1..Len(chapters) :
               /\ chapters'[c].chapterTitle = chapters[c].chapterTitle
               /\ chapters'[c].chapterIndex = chapters[c].chapterIndex
               /\ Len(chapters'[c].lessons) = Len(chapters[c].lessons)
               /\ \A l \in 1..Len(chapters[c].lessons) :
                     /\ chapters'[c].lessons[l].title = chapters[c].lessons[l].title
                     /\ chapters'[c].lessons[l].type = chapters[c].lessons[l].type
                     /\ chapters'[c].lessons[l].chapterIndex
                           = chapters[c].lessons[l].chapterIndex
                     /\ chapters'[c].lessons[l].lessonIndex
                           = chapters[c].lessons[l].lessonIndex
                     /\ (<<c, l>> # <<ci, li>>) =>
                           chapters'[c].lessons[l] = chapters[c].lessons[l]
      ]_vars

\* two lessons have been processed, one given content and one an error, while
\* a third is still as the plan built it
C14_Witness ==
    /\ PlanBuilt
    /\ Len(turns) >= 2
    /\ \E i \in 1..Len(turns) : turns[i].lesson.content # Null
    /\ \E i \in 1..Len(turns) : turns[i].lesson.error # Absent
    /\ \E c \in 1..Len(chapters) : \E l \in 1..Len(chapters[c].lessons) :
          Untouched(chapters[c].lessons[l])

\* the first card, in DOM order, whose normalized title is the given one
EarliestCardTitled(cards, title) ==
    CHOOSE i \in 1..Len(cards) :
        /\ cards[i].title # NoEl
        /\ ToLowerCase(CollapseWs(Trim(cards[i].title))) = title
        /\ \A j \in 1..(i - 1) :
              cards[j].title = NoEl \/ ToLowerCase(CollapseWs(Trim(cards[j].title))) # title

\* C18: every click goes to the first card of the whole document, in DOM
\* order, whose normalized title equals the normalized title of the lesson;
\* of two lessons with the same normalized title both are clicked on the
\* earliest such card, the later lesson's own card is never clicked, and the
\* run does not fail for it.
C18_EarliestCardWins ==
    PlanBuilt =>
        LET cards == AllCards(Document(page))
            lessons == PlanLessons(chapters)
        IN  /\ \A j \in 1..Len(clicks) :
                  /\ clicks[j].card = EarliestCardTitled(cards,
                          ToLowerCase(CollapseWs(Trim(lessons[clicks[j].lesson].title))))
                  /\ clicks[j].card <= clicks[j].lesson
            /\ \A a \in 1..Len(lessons) : \A b \in (a + 1)..Len(lessons) :
                  (/\ cards[a].title # NoEl /\ cards[b].title # NoEl
                   /\ ToLowerCase(CollapseWs(Trim(cards[a].title)))
                        = ToLowerCase(CollapseWs(Trim(cards[b].title))))
                  => \A j \in 1..Len(clicks) : clicks[j].card # b
            /\ outcome # "failed"

\* on the page with two lessons of the same normalized title, the second was
\* clicked on the card of the first, and the run returned
C18_Witness ==
    /\ page = "duplicate"
    /\ Returned
    /\ \E j \in 1..Len(clicks) : clicks[j].lesson = 2 /\ clicks[j].card = 1

\* the positions of the selectors whose query raises nothing and matches something
MatchingPositions(list, context) ==
    {i \in 1..Len(list) : ~context[list[i]].throws /\ Len(context[list[i]].matches) > 0}

Least(S) == CHOOSE i \in S : \A j \in S : i <= j

\* C15: findElement returns the first element matched by the earliest selector
\* of the list that matches anything (of two matching selectors at positions
\* i < j, the match of position i); a selector whose query raises is skipped
\* and the later selectors are still tried; the result is null when no
\* selector matches.
C15_FindElementFirstMatchingSelector ==
    (args.fn = "findElement" /\ ret.done) =>
        LET list == AsArray(args.selectors)
            good == MatchingPositions(list, args.context)
        IN  IF good = {}
            THEN ret.value = NoEl
            ELSE ret.value = Head(args.context[list[Least(good)]].matches)

\* the first selector raises, the second and the third both match: the result
\* is the match of the second
C15_Witness ==
    /\ args.fn = "findElement" /\ ret.done
    /\ args.selectors = [isArray |-> TRUE, value |-> <<"s1", "s2", "s3">>]
    /\ args.context["s1"].throws
    /\ args.context["s2"] = QueryResult(FALSE, << <<"e2">> >>)
    /\ args.context["s3"] = QueryResult(FALSE, << <<"e1">>, <<"e2">> >>)
    /\ ret.value = <<"e2">>

\* C16: findElements returns exactly the matches of the first selector of the
\* list that matches at least one element, with nothing of any later selector,
\* and the empty list when every selector matches nothing or raises.
C16_FindElementsFirstMatchSetOnly ==
    (args.fn = "findElements" /\ ret.done) =>
        LET list == AsArray(args.selectors)
            good == MatchingPositions(list, args.context)
        IN  IF good = {}
            THEN ret.value = <<>>
            ELSE ret.value = args.context[list[Least(good)]].matches

\* the first selector matches nothing, the second one element, the third two:
\* only the element of the second is returned
C16_Witness ==
    /\ args.fn = "findElements" /\ ret.done
    /\ args.selectors = [isArray |-> TRUE, value |-> <<"s1", "s2", "s3">>]
    /\ args.context["s1"] = QueryResult(FALSE, <<>>)
    /\ args.context["s2"] = QueryResult(FALSE, << <<"e1">> >>)
    /\ args.context["s3"] = QueryResult(FALSE, << <<"e1">>, <<"e2">> >>)
    /\ ret.value = << <<"e1">> >>

\* the letter in the other case
SwapCaseChar(c) ==
    IF \E i \in 1..Len(UpperChars) : UpperChars[i] = c
    THEN LowerChars[CHOOSE i \in 1..Len(UpperChars) : UpperChars[i] = c]
    ELSE IF \E i \in 1..Len(LowerChars) : LowerChars[i] = c
    THEN UpperChars[CHOOSE i \in 1..Len(LowerChars) : LowerChars[i] = c]
    ELSE c

SwapCase(s) == [i \in 1..Len(s) |-> SwapCaseChar(s[i])]

\* s with the character w put after its first i characters
InsertAt(s, i, w) == SubSeq(s, 1, i) \o <<w>> \o SubSeq(s, i + 1, Len(s))

\* position i of s is at an end of s or next to a whitespace character
AtWhiteSpace(s, i) ==
    \/ i = 0 \/ i = Len(s)
    \/ s[i] \in WhiteSpace \/ s[i + 1] \in WhiteSpace

\* C17: normalizeText is idempotent, and titles that differ only in letter
\* case or in the amount of leading, trailing or inner whitespace have the
\* same normal form: the normal form is unchanged by swapping the case of the
\* letters and by one more whitespace character at an end or in a whitespace
\* run, and it holds no upper-case letter, no whitespace but single inner
\* spaces.
C17_NormalizeTextIdempotentAndInsensitive ==
    (args.fn = "normalizeText" /\ ret.done) =>
        LET s == args.text
            n == ret.value
        IN  /\ normalizeText(n) = n
            /\ normalizeText(SwapCase(s)) = n
            /\ \A i \in 0..Len(s) : \A w \in WhiteSpace :
                  AtWhiteSpace(s, i) => normalizeText(InsertAt(s, i, w)) = n
            /\ \A i \in 1..Len(n) :
                  /\ ~(\E k \in 1..Len(UpperChars) : UpperChars[k] = n[i])
                  /\ n[i] \in WhiteSpace =>
                        (n[i] = " " /\ 1 < i /\ i < Len(n) /\ n[i + 1] \notin WhiteSpace)

\* a title with an upper-case letter and a run of two whitespace characters
C17_Witness ==
    /\ args.fn = "normalizeText" /\ ret.done
    /\ args.text = <<"A", " ", "\t", "b">>
    /\ ret.value = <<"a", " ", "b">>

\* C19: a poll of the load wait reports the lesson loaded exactly when a title
\* element is found whose text has the normal form of the expected title under
\* the normalization of the locate step (case-folded, whitespace-collapsed),
\* so not when it merely contains the expected title.
C19_LoadWaitUsesLocateNormalization ==
    (args.fn = "waitForLessonLoaded" /\ ret.done) =>
        (ret.value <=> (/\ args.shown # NoEl
                        /\ normalizeText(args.shown) = normalizeText(args.expectedTitle)))

\* the type attributes that the opening tag, the icon or the title of the
\* lesson node spell out
MarkupType(card) ==
    LET lessonHTML == ToLowerCase(card.markup \o card.icon.outerHTML
                                  \o (IF card.title = NoEl THEN <<>> ELSE card.title))
    IN  IF Includes(lessonHTML, Str_type_video) THEN Str_video
        ELSE IF Includes(lessonHTML, Str_type_text) THEN Str_text
        ELSE Str_unknown

IconKeywords == {Str_video, Str_play, Str_text, Str_document, Str_file_text,
                 Str_quiz, Str_question, Str_test, Str_download, Str_arrow_down}

\* the icon of the card was found and spells out a keyword
IconHasKeyword(card) ==
    /\ card.icon.found
    /\ \E k \in IconKeywords :
          \/ Includes(ToLowerCase(card.icon.outerHTML), k)
          \/ Includes(ToLowerCase(card.icon.className), k)

\* C20: when no icon element is found, and when the icon found spells out no
\* keyword, detectLessonType classifies the lesson by the type attribute of
\* the lesson node's own markup: video or text when there is one, unknown
\* otherwise.
C20_TypeFallsBackToMarkup ==
    (args.fn = "detectLessonType" /\ ret.done /\ ~IconHasKeyword(args.card)) =>
        ret.value = MarkupType(args.card)

\* C21: in the returned document every lesson whose detected type is not text
\* has content, textContent and plainTextContent null: only text lessons carry
\* extracted content.
C21_OnlyTextLessonsCarryContent ==
    Returned =>
        \A i \in 1..Len(PlanLessons(finalData.chapters)) :
            LET lesson == PlanLessons(finalData.chapters)[i]
            IN  lesson.type # Str_text => ContentNull(lesson)

\* C24: every lesson of the returned document has the documented fields title,
\* type, url, chapterIndex, lessonIndex, content, textContent and
\* plainTextContent, and has error exactly when its extraction failed.
C24_LessonsHaveDocumentedFields ==
    Returned =>
        \A i \in 1..Len(PlanLessons(finalData.chapters)) :
            LET lesson == PlanLessons(finalData.chapters)[i]
            IN  /\ {"title", "type", "url", "chapterIndex", "lessonIndex",
                    "content", "textContent", "plainTextContent"}
                       \subseteq DOMAIN lesson
                /\ (lesson.error # Absent) =>
                       \E t \in 1..Len(turns) :
                           /\ turns[t].how \in FailureKinds
                           /\ turns[t].lesson = lesson

\* C22: chrome.downloads.download is called only when executeScript has
\* resolved with a document that is not cancelled and no cancelled message has
\* been received during the run; it is then called, and exactly once for the
\* run; a cancelled run ends without a download.
C22_NoDownloadForCancelledRun ==
    [][/\ (downloads' > downloads) =>
            /\ rpc = "running" /\ Returned
            /\ ~finalData.cancelled /\ ~wasCancelled
            /\ downloads = 0 /\ downloads' = 1
       /\ (rpc = "running" /\ rpc' # "running" /\ Returned) =>
            IF finalData.cancelled \/ wasCancelled
            THEN downloads' = 0 /\ rpc' = "idle"
            ELSE downloads' = 1 /\ rpc' = "download"
       /\ (rpc = "download") => downloads' = 1]_vars

\* a cancelled run has ended: the popup is idle again and has not downloaded
C22_Witness ==
    /\ rpc = "idle"
    /\ cancelRequested
    /\ Returned /\ finalData.cancelled
    /\ LastEvent.type = "tcs-cancelled"
    /\ inbox = <<>> /\ wasCancelled
    /\ downloads = 0
IsProgress(e) == e.type = "tcs-progress"
\* the progress events of the run so far
ProgressEvents == SelectSeq(events, IsProgress)

\* C30: the n-th progress event of a run carries completed = n, so the count
\* starts at 0, grows by exactly 1 with each progress event and never
\* decreases; it never exceeds totalLessons; the terminal done or cancelled
\* event carries the value of the last progress event (0 if there was none).
C30_CompletedCountsProgressEvents ==
    /\ \A n \in 1..Len(ProgressEvents) :
          /\ ProgressEvents[n].completed = n
          /\ ProgressEvents[n].completed <= ProgressEvents[n].totalLessons
          /\ ProgressEvents[n].totalLessons = totalLessons
    /\ \A i \in 1..Len(events) :
          events[i].type \in {"tcs-done", "tcs-cancelled"} =>
              /\ i = Len(events)
              /\ events[i].completed = Len(ProgressEvents)
              /\ events[i].completed <= events[i].totalLessons

\* a run has completed with two progress events and fewer completed lessons
\* than the plan has
C30_Witness ==
    /\ Returned /\ ~finalData.cancelled
    /\ Len(ProgressEvents) = 2
    /\ totalLessons > 2
    /\ LastEvent.type = "tcs-done"
    /\ LastEvent.completed = 2
\* C27: waitForLessonLoaded always terminates and never throws.  It polls
\* only while the clock reads less than the timeout, and a poll without a
\* match is followed by the 500 ms of its sleep at least; it returns true only at a poll made
\* within the timeout at which the title matches, and nothing is recorded for
\* the lesson then; it returns false only once the 12 seconds have elapsed,
\* and the caller then records the timeout error for the lesson; the run
\* never fails in it; and every wait ends.
C27_LoadWaitTerminates ==
    /\ [][spc = "wait" =>
            /\ outcome' = outcome
            /\ \/ /\ spc' = "wait"
                  /\ \/ waited' = waited
                     \/ waited < LoadTimeoutMs /\ waited' >= waited + 500
                  /\ turns' = turns
               \/ /\ spc' = "loaded"
                  /\ waited < LoadTimeoutMs
                  /\ TitleMatches(AllCards(Document(page))[target].edTitle,
                                  CurrentLesson.title)
                  /\ turns' = turns
               \/ /\ spc' = "check"
                  /\ waited >= LoadTimeoutMs
                  /\ turns' = Append(turns,
                        [how |-> "timeout",
                         lesson |-> [CurrentLesson EXCEPT !.error = ErrTimeout]])
                  /\ ContentNull(turns'[Len(turns')].lesson)]_vars
    /\ (spc = "wait") ~> (spc # "wait")

\* the load wait of the second lesson has timed out after the first lesson
\* was loaded and extracted
C27_Witness ==
    /\ Len(turns) >= 2
    /\ turns[1].how = "extracted"
    /\ turns[2].how = "timeout"
    /\ turns[2].lesson.error = ErrTimeout

\* timers fired late during a load wait: the clock reads more than the timeout
\* when the function gives up
C27_WitnessLateTimer ==
    /\ spc = "wait"
    /\ waited > LoadTimeoutMs

\* every turn that has begun ends, and every injected run ends
RunEnds ==
    /\ (spc \in {"scroll", "wait", "loaded"}) ~> (spc \in {"check", "between"})
    /\ (rpc = "inject") ~> (rpc # "inject" /\ outcome \in {"returned", "failed"})

\* C28: every run over a finite plan terminates: the load wait is bounded, a
\* lesson's turn that has begun ends, and a run that was injected eventually
\* either returns its document (completed or cancelled) or fails with the
\* fatal no-chapters error.
C28_EveryRunTerminates ==
    /\ [][spc = "wait" /\ spc' = "wait" =>
            \/ waited' = waited
            \/ waited < LoadTimeoutMs /\ waited' >= waited + 500]_vars
    /\ (spc \in {"scroll", "wait", "loaded"}) ~> (spc \in {"check", "between"})
    /\ (rpc = "inject") ~>
          /\ rpc # "inject"
          /\ \/ Returned
             \/ outcome = "failed" /\ fatalMessage = ErrNoChapters
\* the attempts of the retryOperation call that have failed so far
FailedCalls == {i \in 1..Len(proc.calls) : ~proc.calls[i].ok}
Retrying == args.fn = "retryOperation"
Settled(kind) == ret.done /\ ret.value.kind = kind

\* C23: with the default options an operation that keeps failing is retried
\* with waits of 1 s, 2 s and 4 s, in that order, before the failure is
\* reported.
C23_DefaultBackoffOneTwoFour ==
    (Retrying /\ DOMAIN args.options = {} /\ Settled("rejected")) =>
        proc.waits = <<1000, 2000, 4000>>

\* C25: with maxRetries >= 1, retryOperation invokes the operation at most
\* maxRetries times; every attempt before the latest has failed, and the value
\* of a successful attempt is returned with no attempt after it; onRetry is
\* called once, with the attempt and its error, after each failed attempt except
\* the maxRetries-th; when all maxRetries attempts have failed it rejects with
\* an Error whose message names maxRetries and the last attempt's message.
C25_RetryOperationContract ==
    (Retrying /\ MaxRetries(args.options) >= 1) =>
        LET max == MaxRetries(args.options)
            calls == proc.calls
            owed == IF Cardinality(FailedCalls) < max
                    THEN Cardinality(FailedCalls) ELSE max - 1
        IN  /\ Len(calls) <= max
            /\ \A i \in 1..Len(calls) : calls[i].ok => i = Len(calls)
            /\ (Len(calls) > 0 /\ calls[Len(calls)].ok) =>
                   /\ Settled("resolved")
                   /\ ret.value.value = calls[Len(calls)].value
                   /\ proc.pc = "done"
            /\ Settled("resolved") => calls[Len(calls)].ok
            /\ "onRetry" \in DOMAIN args.options =>
                   /\ Len(proc.onRetryCalls) = owed
                   /\ \A k \in 1..owed :
                          proc.onRetryCalls[k] =
                              [attempt |-> k - 1, error |-> calls[k].value]
            /\ "onRetry" \notin DOMAIN args.options => proc.onRetryCalls = <<>>
            /\ Settled("rejected") =>
                   /\ Len(calls) = max
                   /\ FailedCalls = 1..max
                   /\ ret.value.name = "Error"
                   /\ ret.value.message =
                          <<"Operation failed after ">> \o NumToString(max)
                          \o <<" attempts: ">> \o calls[max].value

\* three attempts have failed, the last with another error than the first,
\* and the call has rejected after two onRetry calls
C25_Witness ==
    /\ Retrying /\ Settled("rejected")
    /\ MaxRetries(args.options) = 3
    /\ "onRetry" \in DOMAIN args.options
    /\ Len(proc.onRetryCalls) = 2
    /\ proc.calls[1].value = <<"boom">>
    /\ proc.calls[3].value = <<"bang">>
    /\ ret.value.message = <<"Operation failed after ", "3", " attempts: ", "bang">>

\* C26: retryOperation sleeps only between attempts: the first wait is
\* backoffMs and each later wait is backoffMultiplier times the one before, so
\* the wait after the k-th failed attempt (from 0) is
\* backoffMs * backoffMultiplier^k; a call with f failed attempts so far has
\* made min(f, maxRetries - 1) waits, so none after the final failed attempt.
C26_WaitsOnlyBetweenAttempts ==
    (Retrying /\ MaxRetries(args.options) >= 1) =>
        LET max == MaxRetries(args.options)
            backoffMs == OptionOr(args.options, "backoffMs", 1000)
            multiplier == OptionOr(args.options, "backoffMultiplier", 2)
            waits == proc.waits
        IN  /\ Len(waits) = IF Cardinality(FailedCalls) < max
                            THEN Cardinality(FailedCalls) ELSE max - 1
            /\ \A k \in 1..Len(waits) :
                   waits[k] = IF k = 1 THEN backoffMs ELSE waits[k - 1] * multiplier
            /\ proc.pc = "sleep" => Len(proc.calls) < max
            /\ Settled("rejected") => Len(waits) = max - 1

\* four attempts have failed with backoffMs 100 and multiplier 3: three waits
C26_Witness ==
    /\ Retrying /\ Settled("rejected")
    /\ MaxRetries(args.options) = 4
    /\ Cardinality(FailedCalls) = 4
    /\ proc.waits = <<100, 300, 900>>
\* C29: waitForElement is a bounded poll: it polls only while the timeout has
\* not elapsed, and at least the 100 ms of its sleep pass between two polls;
\* a poll tries the selectors in list order, skips those that
\* raise, and resolves with the first element of the earliest selector that
\* matches; it never resolves with null; when the timeout has elapsed without
\* a match it rejects with 'Element not found after <timeout>ms: <selectors>'.
C29_WaitForElementBoundedPoll ==
    (args.fn = "waitForElement") =>
        LET list == AsArray(args.selector)
            timeout == IF "timeout" \in DOMAIN args THEN args.timeout ELSE 10000
            matching == MatchingPositions(list, proc.seen)
        IN  /\ proc.polls > 0 => (proc.polls - 1) * 100 < timeout
            /\ proc.elapsed >= (IF proc.pc = "poll" THEN proc.polls
                                ELSE proc.polls - 1) * 100
            /\ (proc.polls > 0 /\ proc.pc = "poll") => matching = {}
            /\ Settled("resolved") =>
                   /\ ret.value.value # NoEl
                   /\ matching # {}
                   /\ ret.value.value = Head(proc.seen[list[Least(matching)]].matches)
            /\ Settled("rejected") =>
                   /\ proc.elapsed >= timeout
                   /\ proc.polls > 0 => matching = {}
                   /\ ret.value.name = "Error"
                   /\ ret.value.message =
                          <<"Element not found after ">> \o NumToString(timeout)
                          \o <<"ms: ">> \o JoinComma(list)
            /\ ret.done => ret.value.kind \in {"resolved", "rejected"}

\* the first selector raises and the second matches once the elements are
\* attached: the second poll resolves with the second selector's first match
C29_Witness ==
    /\ args.fn = "waitForElement"
    /\ args.selector = [isArray |-> TRUE, value |-> <<"s1", "s2">>]
    /\ args.context["s1"].throws
    /\ args.context["s2"].matches = << <<"e1">>, <<"e2">> >>
    /\ proc.polls = 2
    /\ Settled("resolved")
    /\ ret.value.value = <<"e1">>

\* no selector matched within 250 ms, and a timer fired late: two polls, then
\* the rejection
C29_WitnessTimeout ==
    /\ args.fn = "waitForElement"
    /\ args.selector = [isArray |-> TRUE, value |-> <<"s2", "s1">>]
    /\ proc.polls = 2
    /\ proc.elapsed >= 250
    /\ Settled("rejected")
    /\ ret.value.message = <<"Element not found after ", "2", "5", "0", "ms: ", "s2", ", ", "s1">>
\* C39: retryOperation called with maxRetries = 0 never invokes the operation
\* and rejects with the 'Operation failed after 0 attempts' Error, like any
\* other exhausted retry.
C39_ZeroRetriesRejectsAsExhausted ==
    (Retrying /\ MaxRetries(args.options) = 0 /\ ret.done) =>
        /\ proc.calls = <<>>
        /\ ret.value.kind = "rejected"
        /\ ret.value.name = "Error"
        /\ SubSeq(ret.value.message, 1, 3) =
               <<"Operation failed after ", "0", " attempts: ">>
LessonTypes == {Str_video, Str_text, Str_quiz, Str_download, Str_unknown}

\* the keyword families, in the order of their priority
FamilyOrder == <<Str_video, Str_text, Str_quiz, Str_download>>
FamilyKeywords(family) ==
    IF family = Str_video THEN {Str_video, Str_play}
    ELSE IF family = Str_text THEN {Str_text, Str_document, Str_file_text}
    ELSE IF family = Str_quiz THEN {Str_quiz, Str_question, Str_test}
    ELSE {Str_download, Str_arrow_down}

\* the families one of whose keywords the icon's markup or class list spells
IconFamilies(card) ==
    {f \in 1..Len(FamilyOrder) :
        \E k \in FamilyKeywords(FamilyOrder[f]) :
            \/ Includes(ToLowerCase(card.icon.outerHTML), k)
            \/ Includes(ToLowerCase(card.icon.className), k)}

\* when the icon matches several families the highest-priority one wins
IconPriorityHolds ==
    (args.fn = "detectLessonType" /\ ret.done /\ args.card.icon.found
        /\ ~args.card.icon.svg /\ IconFamilies(args.card) # {}) =>
        ret.value = FamilyOrder[Least(IconFamilies(args.card))]

\* C32: detectLessonType always returns one of video, text, quiz, download,
\* unknown, and when the icon matches keywords of several families the result
\* is the first of them in the order video, text, quiz, download.
C32_TypeIsOneOfFiveByPriority ==
    (args.fn = "detectLessonType" /\ ret.done) =>
        /\ ret.value \in LessonTypes
        /\ (args.card.icon.found /\ IconFamilies(args.card) # {}) =>
               ret.value = FamilyOrder[Least(IconFamilies(args.card))]
\* the positions of the entries that are the first of their url
FirstOfUrl(list) ==
    {i \in 1..Len(list) : \A j \in 1..(i - 1) : list[j].url # list[i].url}

\* the k-th smallest member of a set of positions
Nth(S, k) == CHOOSE i \in S : Cardinality({j \in S : j <= i}) = k

\* list is made of the first entry of each url of from, in the order of from
KeepsFirstOfEachUrl(list, from) ==
    /\ Len(list) = Cardinality(FirstOfUrl(from))
    /\ \A k \in 1..Len(list) : list[k] = from[Nth(FirstOfUrl(from), k)]
    /\ \A i, j \in 1..Len(list) : i # j => list[i].url # list[j].url

\* C38: removeDuplicateSources and removeDuplicateFiles keep, for each distinct
\* url, exactly the first entry with that url, in the order of the input; the
\* urls of the result are pairwise distinct; applying the function to its
\* result gives the result again.
C38_RemoveDuplicatesKeepsFirst ==
    /\ (args.fn = "removeDuplicateSources" /\ ret.done) =>
           /\ KeepsFirstOfEachUrl(ret.value, args.sources)
           /\ removeDuplicateSources(ret.value) = ret.value
    /\ (args.fn = "removeDuplicateFiles" /\ ret.done) =>
           /\ KeepsFirstOfEachUrl(ret.value, args.files)
           /\ removeDuplicateFiles(ret.value) = ret.value

\* two urls, each twice, with entries that differ: the first of each is kept
C38_Witness ==
    /\ args.fn = "removeDuplicateSources" /\ ret.done
    /\ args.sources = <<[url |-> "u2", type |-> "embed"], [url |-> "u1", type |-> "aws-s3"],
                        [url |-> "u2", type |-> "aws-s3"], [url |-> "u1", type |-> "embed"]>>
    /\ ret.value = <<[url |-> "u2", type |-> "embed"], [url |-> "u1", type |-> "aws-s3"]>>
\* ------------------------------------------------------------------ C34

RECURSIVE SumLens(_)
SumLens(chs) ==
    IF chs = <<>> THEN 0
    ELSE Len(Head(chs).lessons) + SumLens(Tail(chs))

MapReturned == args.fn = "buildCourseMap" /\ ret.done /\ ~ret.value.threw

\* C34: in the course map returned by buildCourseMap, totalLessons is the number
\* of lesson entries of all chs, and every lesson entry carries the
\* chapterIndex and lessonIndex of its position, entries added after an error
\* included.
C34_MapCountsAndIndexesEveryLesson ==
    MapReturned =>
        LET map == ret.value IN
        /\ map.totalLessons = SumLens(map.chapters)
        /\ \A cn \in 1..Len(map.chapters) :
             \A ln \in 1..Len(map.chapters[cn].lessons) :
                LET lesson == map.chapters[cn].lessons[ln] IN
                /\ "chapterIndex" \in DOMAIN lesson
                /\ "lessonIndex" \in DOMAIN lesson
                /\ lesson.chapterIndex = cn - 1
                /\ lesson.lessonIndex = ln - 1

\* The same map with the entries of failed extractions left aside: the count and
\* the positions of the entries that were extracted without an error.
C34_HoldsWithoutErrorEntries ==
    MapReturned =>
        LET map == ret.value IN
        \A cn \in 1..Len(map.chapters) :
            \A ln \in 1..Len(map.chapters[cn].lessons) :
                LET lesson == map.chapters[cn].lessons[ln] IN
                "error" \notin DOMAIN lesson =>
                    /\ lesson.chapterIndex = cn - 1
                    /\ lesson.lessonIndex = ln - 1


\* ------------------------------------------------------------------ C33

ScrapeReturned == args.fn = "scrapeLessonContent" /\ ret.done

\* the lesson data passed in is carried over, content and error aside
CarriesLessonData(value, lessonData) ==
    /\ DOMAIN value = DOMAIN lessonData \cup {"scrapedAt", "content", "error"}
    /\ \A f \in DOMAIN lessonData \ {"scrapedAt", "content", "error"} :
          value[f] = lessonData[f]

\* the content of one extractor, told by its type field
IsContentOf(content, type) ==
    /\ content # Null
    /\ "type" \in DOMAIN content[2]
    /\ content[2].type = type

IsAllContent(content) ==
    /\ content # Null
    /\ DOMAIN content[2] = {"text", "video", "downloads"}
    /\ content[2].text.type = "text"
    /\ content[2].video.type = "video"
    /\ content[2].downloads.type = "download"

\* C33: scrapeLessonContent never rejects; it calls exactly the extractor of the
\* lesson's type (video, text, download, quiz) and all of the text, video and
\* download extractors for any other type; it returns the lesson data with
\* content set and error null, or, when something threw, with content null and
\* error set to the message.
C33_ScrapeLessonContentNeverRejects ==
    ScrapeReturned =>
        LET r == ret.value
            lessonData == args.lessonData
            threw == proc.pc = "threw"
        IN  /\ r.settled = "fulfilled"
            /\ CarriesLessonData(r.value, lessonData)
            /\ threw => /\ r.value.content = Null
                        /\ r.value.error = ErrNavigationTimeout
                        /\ r.invoked = {}
            /\ ~threw =>
                /\ r.value.error = Null
                /\ r.value.content # Null
                /\ lessonData.type = Str_video => r.invoked = {"extractVideoContent"}
                /\ lessonData.type = Str_text => r.invoked = {"extractTextContent"}
                /\ lessonData.type = Str_download => r.invoked = {"extractDownloadContent"}
                /\ lessonData.type = Str_quiz => r.invoked = {"extractQuizContent"}
                /\ lessonData.type \notin {Str_video, Str_text, Str_download, Str_quiz}
                     => r.invoked = {"extractTextContent", "extractVideoContent",
                                     "extractDownloadContent"}
                /\ lessonData.type = Str_video => IsContentOf(r.value.content, "video")
                /\ lessonData.type = Str_text => IsContentOf(r.value.content, "text")
                /\ lessonData.type = Str_download => IsContentOf(r.value.content, "download")
                /\ lessonData.type = Str_quiz => IsContentOf(r.value.content, "quiz")
                /\ lessonData.type \notin {Str_video, Str_text, Str_download, Str_quiz}
                     => IsAllContent(r.value.content)

\* a lesson of unknown type scraped on a page whose DOM queries throw: all three
\* extractors ran, the video extractor caught the error, the wait for the
\* iframe ran out, and the call returned content
C33_Witness ==
    /\ ScrapeReturned
    /\ args.lessonData.type = Str_unknown
    /\ proc.page.broken
    /\ proc.pc = "returned"
    /\ ret.value.settled = "fulfilled"
    /\ ret.value.value.error = Null
    /\ ret.value.value.content[2].video.error = ErrDom
    /\ "error" \notin DOMAIN ret.value.value.content[2].text
    /\ ret.value.value.content[2].downloads.files = <<>>

\* a text lesson whose page never leaves readyState 'loading': the error of
\* waitForNavigation is caught and returned in the error field
C33_WitnessThrown ==
    /\ ScrapeReturned
    /\ args.lessonData.type = Str_text
    /\ proc.pc = "threw"
    /\ proc.page.readyState = "loading"
    /\ ret.value.settled = "fulfilled"
    /\ ret.value.value.content = Null
    /\ ret.value.value.error = ErrNavigationTimeout

\* a lesson of unknown type on a page that renders while the text extractor
\* waits for the iframe: the video sources are those of the page at the
\* switch, the text is that of the page at the end of the wait
C33_WitnessLiveReads ==
    /\ ScrapeReturned
    /\ args.lessonData.type = Str_unknown
    /\ proc.pc = "returned"
    /\ proc.page.sources = <<>>
    /\ proc.page.iframe = "none"
    /\ ret.value.value.content[2].video.sources = <<SourceA, SourceB>>
    /\ ret.value.value.content[2].text.html = <<" ","m"," "," ","x">>
    /\ ret.value.value.content[2].text.plainText = <<"m"," ","x">>
    /\ ret.value.value.content[2].text.source = "main_page"
    /\ ret.value.value.content[2].downloads.files = <<>>

\* ------------------------------------------------------------------ C35

\* runScrape of call r injects clickThroughAndScrapeCourse in this step
InjectionStarts(r) == runs[r].pc = "files" /\ runs'[r].pc = "func"

\* the injected function of call r is in the page and has not ended
LoopInPage(r) == runs[r].loop \in {"injected", "running", "turn"}

\* C35: the popup admits at most one active scrape: while a call of runScrape
\* made by a Start click has not finished, no other call starts an injection
\* of clickThroughAndScrapeCourse, and two injected loops are never in the page
\* together.
C35_AtMostOneActiveScrape ==
    /\ [][\A r \in DOMAIN runs :
            InjectionStarts(r) => \A q \in DOMAIN runs \ {r} : runs[q].pc = "ended"]_vars
    /\ [](\A r, q \in DOMAIN runs : LoopInPage(r) /\ LoopInPage(q) => r = q)

\* ------------------------------------------------------------------ C36

\* runScrape of call r finishes in this step
Finishes(r) == runs[r].pc # "ended" /\ runs'[r].pc = "ended"

\* C36: whenever a call of runScrape finishes, by whichever path, the popup is
\* idle: isScraping is false, Start is enabled and Cancel is disabled.
C36_FinishedRunLeavesPopupIdle ==
    [][\A r \in DOMAIN runs :
         Finishes(r) => ~isScraping' /\ ~startDisabled' /\ cancelDisabled']_vars

\* a run has finished after its download, and the popup is idle
C36_Witness ==
    /\ \E r \in DOMAIN runs : runs[r].pc = "ended"
    /\ status = "Complete!"
    /\ downloads = 1
    /\ ~isScraping /\ ~startDisabled /\ cancelDisabled

\* ------------------------------------------------------------------ C37

\* a click on Cancel handled in this step
CancelClicked == cancelClicks' = cancelClicks + 1

\* C37: a Cancel click while isScraping is false or no tab is recorded changes
\* neither the page's flag nor the popup's status and state, and no script is
\* sent to the page; the flag becomes true only through the script of a Cancel
\* click made while isScraping was true, a tab was recorded and a call of
\* runScrape had not finished.
C37_IdleCancelHasNoEffect ==
    /\ [][CancelClicked /\ (~isScraping \/ currentTabId = 0)
            => UNCHANGED <<tcsCancelled, cancelScripts, status, isScraping,
                           currentTabId, wasCancelled, startDisabled,
                           cancelDisabled, downloads, runs, inbox>>]_vars
    /\ [][tcsCancelled' /\ ~tcsCancelled
            => /\ cancelScripts.called > 0
               /\ cancelScripts'.ran = cancelScripts.ran + 1]_vars
    /\ [][cancelScripts'.called > cancelScripts.called
            => /\ CancelClicked
               /\ isScraping /\ currentTabId # 0
               /\ \E r \in DOMAIN runs : runs[r].pc # "ended"]_vars

\* Cancel was clicked in a popup that never scraped, and nothing came of it
C37_Witness ==
    /\ cancelClicks = 1
    /\ runs = <<>>
    /\ ~isScraping
    /\ cancelScripts = NoCancelScripts
    /\ ~tcsCancelled
    /\ status = ""

\* the flag was set by a click made during a run
C37_WitnessSet ==
    /\ cancelClicks = 1
    /\ tcsCancelled
    /\ status = "Cancel requested... Finishing current lesson."

\* ------------------------------------------------------------------ C31

\* the turns that ended with an extraction, which are the turns followed by a
\* progress message
CountedTurns == {i \in 1..Len(turns) : turns[i].how \notin {"notfound", "threw", "timeout"}}

\* C31: the messages are fire-and-forget.  With a popup that is gone, so that
\* every send finds no receiver or throws, the run fails only where it fails
\* with a listening popup (while the plan is built, before any send); the turns
\* are taken in plan order and their results stored as they ended; cancelled
\* becomes true only at a check that sees the flag; a run that was injected
\* returns its document or fails in the plan; nothing of a failed send is left
\* behind; handling a message changes nothing in the page; and the run ends
\* without any message being handled.
C31_SendsAreFireAndForget ==
    /\ [](spc = "failed" =>
            /\ outcome = "failed"
            /\ events = <<>>
            /\ Len(Document(page)) = 0 \/ PlanThrows(Document(page)))
    /\ [](outcome = "failed" => spc = "failed")
    /\ [](LET lessons == PlanLessons(chapters)
          IN  \A i \in 1..Len(turns) :
                /\ lessons[i] = turns[i].lesson
                /\ lessons[i].title = Plan[i].title
                /\ turns[i].how \in {"notfound", "threw", "timeout"}
                      => lessons[i].error # Absent /\ ContentNull(lessons[i]))
    /\ [](PlanBuilt =>
            /\ completed = Cardinality(CountedTurns)
            /\ Len(ProgressEvents) = completed)
    /\ [](Returned =>
            /\ finalData.chapters = chapters
            /\ finalData.cancelled = cancelled
            /\ ~cancelled => Len(turns) = totalLessons)
    /\ [][cancelled' /\ ~cancelled => tcsCancelled /\ AtIterationTop]_vars
    /\ [](channel # "open" => inbox = <<>>)
    /\ [][inbox # <<>> /\ inbox' = Tail(inbox) => UNCHANGED pageVars]_vars
    /\ (rpc = "inject") ~> (outcome \in {"returned", "failed"})
    /\ (spc \in {"scroll", "wait", "loaded"}) ~> (spc \in {"check", "between"})

\* a run whose every send threw has returned its document, with a lesson
\* extracted and a later lesson failed
C31_Witness ==
    /\ channel = "invalid"
    /\ Returned /\ ~finalData.cancelled
    /\ Len(events) >= 3
    /\ events[1].type = "tcs-init"
    /\ LastEvent.type = "tcs-done"
    /\ inbox = <<>>
    /\ Len(turns) >= 2
    /\ turns[1].how = "extracted"
    /\ turns[1].lesson.content # Null
    /\ turns[2].how = "timeout"

\* a run was cancelled after the popup had been closed: the cancelled message
\* found no receiver and the document was returned with cancelled = true
C31_WitnessCancelled ==
    /\ channel = "closed"
    /\ Returned /\ finalData.cancelled
    /\ LastEvent.type = "tcs-cancelled"
    /\ inbox = <<>>
    /\ Len(turns) >= 1

\* a run with a listening popup has returned while none of its messages was
\* handled
C31_WitnessUnhandled ==
    /\ channel = "open"
    /\ Returned
    /\ inbox = <<"tcs-init", "tcs-done">>

====
